---- MODULE Spec2Model ----
(***************************************************************************)
(* A state-machine model of eve-monitor-rs: the device-state Model and its *)
(* reducers (src/model/model.rs), the ingestion of status messages into    *)
(* the Model next to the render loop, the Ui event routing (src/ui/ui.rs)  *)
(* and the Dialog key handling (src/ui/dialog.rs).                         *)
(*                                                                         *)
(* Option<T> is modelled as a sequence of length at most one: None is <<>> *)
(* and Some(x) is <<x>>.  Enums with payload are records with a tag field. *)
(***************************************************************************)
EXTENDS Integers, Sequences, FiniteSets, TLC

VARIABLES
    model,          \* the MonitorModel inside the RefCell
    borrow,         \* RefCell borrow flag: 0 free, -1 mutably borrowed, n > 0 readers
    writer,         \* the last reducer call: <<>> or <<[topic, update, step]>>
    committed,      \* history variable: the Model after the last completed reducer call
    frame,          \* what the last Ui::draw read and rendered, <<>> once an
                    \* event has been handled since: <<>> or <<record>>
    arrived,        \* per topic, the updates received, in arrival order
    applied,        \* per topic, how many arrived messages the ingestion task has applied
    views,          \* Ui.views: per tab, the LayerStack (bottom first)
    selected_tab,   \* Ui.selected_tab
    action_tx,      \* the ActionBus: actions sent and not yet received
    last,           \* observation of the last Ui::handle_event call: <<>> or <<record>>
    debug_assertions, \* cfg!(debug_assertions) of the build
    panicked,       \* the process has panicked
    focus,          \* the FocusTracker of a dialog: its ids and its cursor
    process,        \* the process around the loop: its phase, whether the
                    \* terminal is in raw mode, and how the loop was left
    turn,           \* the iteration of the loop: its step, the actions it
                    \* has to drain and the redraws it owes
    modal,          \* a Dialog taken by itself: the dialog and the focus
                    \* flag of its inner window
    calls           \* history variable: the calls made on the component a
                    \* specification exercises, with their results, in order

vars == <<model, borrow, writer, committed, frame, arrived, applied,
          views, selected_tab, action_tx, last, debug_assertions, panicked,
          focus, process, turn, modal, calls>>

modelVars == <<model, borrow, writer, committed, frame, arrived, applied>>
storeVars == <<model, borrow, writer, committed, arrived, applied>>
labVars == <<focus, process, turn, modal, calls>>
uiVars == <<views, selected_tab, action_tx, last, debug_assertions, panicked>>

None == <<>>
Some(x) == <<x>>

(***************************************************************************)
(* Bounds of the model.                                                    *)
(***************************************************************************)
MaxPorts == 2       \* longest port list of a network-status message
MaxListLen == 2     \* longest app list of an app-list message
MaxArrivals == 2    \* messages that arrive, in all, in the ingestion model
MaxDialogs == 1     \* dialogs open at a time, over all tabs
MaxCalls == 6       \* calls recorded in the history of a component
MaxBus == 2          \* actions the tasks may leave waiting on the ActionBus
MaxIds == 3
MaxMacBytes == 9    \* longest byte sequence given as a hardware address
MaxMaskBytes == 33  \* longest netmask given in a subnet
MaxWidth == 9       \* widest parent area given to a dialog
MaxHeight == 7      \* tallest parent area given to a dialog
MaxButtons == 2     \* most buttons of a dialog that is laid out
MaxDialogCalls == 4  \* calls made on a Dialog taken by itself         \* ids registered with a FocusTracker

(***************************************************************************)
(* Sample values of the status messages (src/ipc/eve_types.rs).            *)
(***************************************************************************)
AppIds == {"app-1", "app-2"}
DeviceIds == {"dev-1"}
Servers == {"zedcloud"}

\* SwState and error text of an AppInstanceStatus
\* Texts that the code searches (error descriptions) are sequences of words,
\* the empty string being <<>>.
AppConditions ==
    { [state |-> "Running", error |-> <<>>],
      [state |-> "Halted", error |-> <<"disk", "full">>] }

AppInstanceStatusMsgs ==
    { x \in { [uuid |-> u, version |-> "1.0", display_name |-> "nginx",
               state |-> c.state, error |-> c.error] :
                 u \in AppIds, c \in AppConditions } :
        x.uuid = "app-1" \/ x.state = "Halted" }

SeqsUpTo(S, n) == UNION { [1..k -> S] : k \in 0..n }

AppsListMsgs == { [apps |-> l] : l \in SeqsUpTo(AppInstanceStatusMsgs, MaxListLen) }

NetworkPortStatusSamples ==
    { [if_name |-> "eth0", is_mgmt |-> TRUE,
       addr_info_list |-> << [addr |-> "192.168.2.10"], [addr |-> "fe80::1"] >>,
       default_routers |-> Some(<< "192.168.2.2" >>)],
      [if_name |-> "eth1", is_mgmt |-> FALSE,
       addr_info_list |-> << >>,
       default_routers |-> None] }

DeviceNetworkStatusMsgs ==
    { [ports |-> None] }
    \cup { [ports |-> Some(l)] : l \in SeqsUpTo(NetworkPortStatusSamples, MaxPorts) }

VaultErrors ==
    { <<"Vault", "key", "lost">>,
      <<"unseal", "failed:", "Vault", "key", "unavailable", "PCR", "mismatch">> }

EveVaultStatusMsgs ==
    { [status |-> s, pcr_status |-> p, mismatching_pcrs |-> m, error |-> e] :
        s \in { "DataSecAtRestUnknown", "DataSecAtRestDisabled",
                "DataSecAtRestEnabled", "DataSecAtRestError" },
        p \in { "PcrEnabled", "PcrDisabled" },
        m \in { Some(<<0, 7>>) },
        e \in VaultErrors }

DownloaderStatusMsgs ==
    { [name |-> "image-a", progress |-> 10], [name |-> "image-b", progress |-> 100] }

DefaultAppInstanceSummary ==
    [total_starting |-> 0, total_running |-> 0, total_stopping |-> 0, total_error |-> 0]

AppInstanceSummaryMsgs ==
    { [total_starting |-> 1, total_running |-> 0, total_stopping |-> 0, total_error |-> 0],
      [total_starting |-> 0, total_running |-> 2, total_stopping |-> 0, total_error |-> 1] }

NodeAppInstanceSummary ==
    [total_starting |-> 2, total_running |-> 1, total_stopping |-> 1, total_error |-> 0]

EveNodeStatusMsgs ==
    { [server |-> s, node_uuid |-> u, onboarded |-> o, app_instance_summary |-> a] :
        s \in { Some(x) : x \in Servers },
        u \in { None } \cup { Some(x) : x \in DeviceIds },
        o \in BOOLEAN,
        a \in { None, Some(NodeAppInstanceSummary) } }

EveOnboardingStatusMsgs == { [device_uuid |-> d] : d \in DeviceIds }

(***************************************************************************)
(* Decoding of the inbound messages (src/ipc/eve_types.rs).  A text is a   *)
(* sequence of one-character strings, a byte a number in 0..255.  A        *)
(* decoder yields Ok(value) or Err; a conversion that panics yields Panic. *)
(***************************************************************************)
Ok(v) == [tag |-> "Ok", value |-> v]
Err == [tag |-> "Err"]
Panic == [tag |-> "Panic"]

\* The alphabet of base64::engine::general_purpose::STANDARD
Base64Chars ==
    <<"A", "B", "C", "D", "E", "F", "G", "H", "I", "J", "K", "L", "M", "N", "O", "P",
       "Q", "R", "S", "T", "U", "V", "W", "X", "Y", "Z", "a", "b", "c", "d", "e", "f",
       "g", "h", "i", "j", "k", "l", "m", "n", "o", "p", "q", "r", "s", "t", "u", "v",
       "w", "x", "y", "z", "0", "1", "2", "3", "4", "5", "6", "7", "8", "9", "+", "/">>

Base64Value(c) == (CHOOSE i \in 1..Len(Base64Chars) : Base64Chars[i] = c) - 1

IsBase64Char(c) == \E i \in 1..Len(Base64Chars) : Base64Chars[i] = c

\* The bytes of one group of four characters, the last one or two of which
\* may be padding; trailing bits that are not zero are refused
Base64Group(g) ==
    LET pad == IF g[4] # "=" THEN 0 ELSE IF g[3] # "=" THEN 1 ELSE 2
        v == [i \in 1..4 |-> IF i <= 4 - pad THEN Base64Value(g[i]) ELSE 0]
        n == v[1] * 262144 + v[2] * 4096 + v[3] * 64 + v[4]
        bytes == << n \div 65536, (n \div 256) % 256, n % 256 >>
    IN  IF \E i \in (3 - pad + 1)..3 : bytes[i] # 0 THEN Err
        ELSE Ok(SubSeq(bytes, 1, 3 - pad))

\* STANDARD.decode: groups of four characters, padding in the last group
\* only
RECURSIVE Base64Decode(_)
Base64Decode(text) ==
    IF text = <<>> THEN Ok(<<>>)
    ELSE IF Len(text) < 4 THEN Err
    ELSE LET g == SubSeq(text, 1, 4)
             rest == SubSeq(text, 5, Len(text))
             wellformed ==
                 /\ IsBase64Char(g[1]) /\ IsBase64Char(g[2])
                 /\ IsBase64Char(g[3]) \/ (g[3] = "=" /\ g[4] = "=")
                 /\ IsBase64Char(g[4]) \/ g[4] = "="
                 /\ (g[4] = "=") => rest = <<>>
         IN  IF ~wellformed THEN Err
             ELSE LET head == Base64Group(g)
                      tail == Base64Decode(rest)
                  IN  IF head.tag = "Err" \/ tail.tag = "Err" THEN Err
                      ELSE Ok(head.value \o tail.value)

\* deserialize_mac accepting every address of six bytes or more
deserialize_mac_at_least_six(s) ==
    IF s = None THEN Ok(None)
    ELSE LET bytes == Base64Decode(s[1])
         IN  IF bytes.tag = "Err" THEN Err
             ELSE CASE Len(bytes.value) = 6 ->
                         Ok(Some([kind |-> "MacAddr6", bytes |-> bytes.value]))
                    [] Len(bytes.value) >= 7 ->
                         Ok(Some([kind |-> "MacAddr8", bytes |-> bytes.value]))
                    [] OTHER -> Err

\* deserialize_mac: null is no address; a text is decoded from base64 and
\* accepted when it has 6 or 8 bytes
deserialize_mac(s) ==
    IF s = None THEN Ok(None)
    ELSE LET bytes == Base64Decode(s[1])
         IN  IF bytes.tag = "Err" THEN Err
             ELSE CASE Len(bytes.value) = 6 ->
                         Ok(Some([kind |-> "MacAddr6", bytes |-> bytes.value]))
                    [] Len(bytes.value) = 8 ->
                         Ok(Some([kind |-> "MacAddr8", bytes |-> bytes.value]))
                    [] OTHER -> Err

\* u8::count_ones
RECURSIVE count_ones(_)
count_ones(byte) == IF byte = 0 THEN 0 ELSE (byte % 2) + count_ones(byte \div 2)

\* mask.iter().fold(0, |acc, &byte| acc + byte.count_ones()) as u8
RECURSIVE SumOnes(_)
SumOnes(mask) == IF mask = <<>> THEN 0 ELSE count_ones(Head(mask)) + SumOnes(Tail(mask))
PrefixLen(mask) == SumOnes(mask) % 256

\* IpAddr::from_str on the addresses that occur in the messages; any other
\* text is not an address
IpAddrs == [ip \in { "192.168.2.0", "fe80::" } |->
               IF ip = "fe80::" THEN "V6" ELSE "V4"]
ParseIpAddr(text) ==
    IF text \in DOMAIN IpAddrs THEN Ok([addr |-> text, family |-> IpAddrs[text]])
    ELSE Err

\* IpNet::new: the prefix length is at most 32 for IPv4 and 128 for IPv6
IpNetNew(ip, prefix_len) ==
    IF prefix_len <= (IF ip.family = "V4" THEN 32 ELSE 128)
    THEN Ok([addr |-> ip.addr, prefix_len |-> prefix_len])
    ELSE Err

\* Deserialize for GoIpNetwork: "IP" with NoneAsEmptyString, "Mask" with
\* Option<Base64>
GoIpNetworkDeserialize(raw) ==
    LET ip == IF raw.IP = "" THEN Ok(None)
              ELSE IF ParseIpAddr(raw.IP).tag = "Err" THEN Err
              ELSE Ok(Some(ParseIpAddr(raw.IP).value))
        mask == IF raw.Mask = None THEN Ok(None)
                ELSE IF Base64Decode(raw.Mask[1]).tag = "Err" THEN Err
                ELSE Ok(Some(Base64Decode(raw.Mask[1]).value))
    IN  IF ip.tag = "Err" \/ mask.tag = "Err" THEN Err
        ELSE Ok([ip |-> ip.value, mask |-> mask.value])

\* impl From<GoIpNetwork> for Option<IpNet>
OptionIpNetFrom(gip) ==
    IF gip.ip # None /\ gip.mask # None
    THEN LET net == IpNetNew(gip.ip[1], PrefixLen(gip.mask[1]))
         IN  IF net.tag = "Ok" THEN Ok(Some(net.value)) ELSE Ok(None)
    ELSE Ok(None)

\* impl From<GoIpNetwork> for IpNet: expect and panic!
IpNetFrom(gip) ==
    IF gip.ip # None /\ gip.mask # None
    THEN LET net == IpNetNew(gip.ip[1], PrefixLen(gip.mask[1]))
         IN  IF net.tag = "Ok" THEN Ok(net.value) ELSE Panic
    ELSE Panic

\* A field with serde_as(as = "Option<FromInto<GoIpNetwork>>"), of type
\* Option<IpNet>: null is None, anything else goes through IpNetFrom
OptionFromIntoGoIpNetwork(raw) ==
    IF raw = None THEN Ok(None)
    ELSE LET gip == GoIpNetworkDeserialize(raw[1])
         IN  IF gip.tag = "Err" THEN Err
             ELSE LET net == IpNetFrom(gip.value)
                  IN  IF net.tag = "Ok" THEN Ok(Some(net.value)) ELSE net

\* Deserialize for NetworkPortStatus.  The fields are decoded in the order
\* of the keys in the text, which the sender chooses: when two fields are
\* bad either one may be met first
NetworkPortStatusDeserialize(raw) ==
    LET subnet == OptionFromIntoGoIpNetwork(raw.configured_subnet)
        mac == deserialize_mac(raw.mac_addr)
        bad == { r \in { subnet, mac } : r.tag # "Ok" }
    IN  IF bad # {} THEN bad
        ELSE { Ok([if_name |-> raw.if_name, is_mgmt |-> raw.is_mgmt,
                   addr_info_list |-> raw.addr_info_list,
                   default_routers |-> raw.default_routers,
                   configured_subnet |-> subnet.value,
                   mac_addr |-> mac.value]) }

\* The ports of a DeviceNetworkStatus, one after the other
RECURSIVE PortsDeserialize(_)
PortsDeserialize(ports) ==
    IF ports = <<>> THEN { Ok(<<>>) }
    ELSE UNION { IF h.tag # "Ok" THEN { h }
                 ELSE { IF t.tag = "Ok" THEN Ok(<<h.value>> \o t.value) ELSE t :
                          t \in PortsDeserialize(Tail(ports)) } :
                 h \in NetworkPortStatusDeserialize(Head(ports)) }

\* Deserialize for DeviceNetworkStatus
DeviceNetworkStatusDeserialize(raw) ==
    IF raw.ports = None THEN { Ok([ports |-> None]) }
    ELSE { IF r.tag = "Ok" THEN Ok([ports |-> Some(r.value)]) ELSE r :
             r \in PortsDeserialize(raw.ports[1]) }

(***************************************************************************)
(* The conversions of src/model/model.rs.                                  *)
(***************************************************************************)
\* impl From<ErrorAndTime> for EveError
EveErrorFrom(error) == [error |-> error]

\* str::contains, on texts that are sequences of words
Contains(text, pattern) ==
    \E i \in 1..(Len(text) + 1) :
        /\ i + Len(pattern) - 1 <= Len(text)
        /\ SubSeq(text, i, i + Len(pattern) - 1) = pattern

VaultKeyUnavailable == <<"Vault", "key", "unavailable">>

\* impl From<EveVaultStatus> for VaultStatus
VaultStatusFromAlwaysPcrs(vault_status) ==
    LET tpm_used == vault_status.pcr_status = "PcrEnabled"
    IN  CASE vault_status.status = "DataSecAtRestUnknown" ->
               [tag |-> "Unknown"]
          [] vault_status.status = "DataSecAtRestDisabled" ->
               [tag |-> "EncriptionDisabled",
                reason |-> EveErrorFrom(vault_status.error), tpm_used |-> tpm_used]
          [] vault_status.status = "DataSecAtRestEnabled" ->
               [tag |-> "Unlocked", tpm_used |-> tpm_used]
          [] vault_status.status = "DataSecAtRestError" ->
               [tag |-> "Locked", reason |-> EveErrorFrom(vault_status.error),
                pcrs |-> vault_status.mismatching_pcrs]
VaultStatusFrom(vault_status) ==
    LET tpm_used == vault_status.pcr_status = "PcrEnabled"
    IN  CASE vault_status.status = "DataSecAtRestUnknown" ->
               [tag |-> "Unknown"]
          [] vault_status.status = "DataSecAtRestDisabled" ->
               [tag |-> "EncriptionDisabled",
                reason |-> EveErrorFrom(vault_status.error), tpm_used |-> tpm_used]
          [] vault_status.status = "DataSecAtRestEnabled" ->
               [tag |-> "Unlocked", tpm_used |-> tpm_used]
          [] vault_status.status = "DataSecAtRestError" ->
               LET err == EveErrorFrom(vault_status.error)
                   pcrs == IF Contains(err.error, VaultKeyUnavailable)
                           THEN vault_status.mismatching_pcrs
                           ELSE None
               IN  [tag |-> "Locked", reason |-> err, pcrs |-> pcrs]

\* impl From<AppInstanceStatus> for AppInstance
AppInstanceFrom(app) ==
    LET state == IF app.error # <<>>
                 THEN [tag |-> "Error", state |-> app.state, reason |-> app.error]
                 ELSE [tag |-> "Normal", state |-> app.state]
    IN  [name |-> app.display_name, uuid |-> app.uuid,
         version |-> app.version, state |-> state]

\* HashMap::insert
MapInsert(map, key, value) ==
    [k \in DOMAIN map \cup {key} |-> IF k = key THEN value ELSE map[k]]

EmptyMap == [k \in {} |-> None]

\* impl From<AppsList> for HashMap<Uuid, AppInstance>: collect() inserts the
\* pairs in list order, a later pair replacing an earlier one of the same key
RECURSIVE CollectApps(_, _)
CollectApps(map, list) ==
    IF list = <<>> THEN map
    ELSE CollectApps(MapInsert(map, Head(list).uuid, AppInstanceFrom(Head(list))),
                     Tail(list))

AppsFrom(apps_list) == CollectApps(EmptyMap, apps_list.apps)

\* impl From<EveNodeStatus> for NodeStatus
NodeStatusFromUuidFirst(node_status) ==
    LET onboarding_status ==
            CASE node_status.node_uuid # None ->
                   [tag |-> "Onboarded", uuid |-> node_status.node_uuid[1]]
              [] node_status.onboarded /\ node_status.node_uuid = None ->
                   [tag |-> "Error", reason |-> "Node UUID is missing"]
              [] OTHER ->
                   [tag |-> "Onboarding"]
    IN  [server |-> node_status.server,
         app_summary |-> IF node_status.app_instance_summary = None
                         THEN DefaultAppInstanceSummary
                         ELSE node_status.app_instance_summary[1],
         onboarding_status |-> onboarding_status]
NodeStatusFrom(node_status) ==
    LET onboarding_status ==
            CASE node_status.onboarded /\ node_status.node_uuid # None ->
                   [tag |-> "Onboarded", uuid |-> node_status.node_uuid[1]]
              [] node_status.onboarded /\ node_status.node_uuid = None ->
                   [tag |-> "Error", reason |-> "Node UUID is missing"]
              [] ~node_status.onboarded ->
                   [tag |-> "Onboarding"]
    IN  [server |-> node_status.server,
         app_summary |-> IF node_status.app_instance_summary = None
                         THEN DefaultAppInstanceSummary
                         ELSE node_status.app_instance_summary[1],
         onboarding_status |-> onboarding_status]

\* impl From<NetworkPortStatus> for NetworkInterface (src/device/network.rs)
NetworkInterfaceFrom(port) ==
    [name |-> port.if_name,
     addresses |-> [i \in 1..Len(port.addr_info_list) |-> port.addr_info_list[i].addr],
     is_mngmt |-> port.is_mgmt,
     default_gateway |-> port.default_routers]

\* MonitorModel::get_network_settings
get_network_settings_first_port(network_status) ==
    IF network_status.ports = None THEN None
    ELSE LET ports == network_status.ports[1]
         IN  Some([i \in 1..(IF ports = <<>> THEN 0 ELSE 1) |->
                      NetworkInterfaceFrom(ports[i])])
get_network_settings(network_status) ==
    IF network_status.ports = None THEN None
    ELSE LET ports == network_status.ports[1]
         IN  Some([i \in 1..Len(ports) |-> NetworkInterfaceFrom(ports[i])])

\* impl Default for MonitorModel
DefaultMonitorModel ==
    [network |-> <<>>,
     downloader |-> None,
     node_status |-> [server |-> None,
                      app_summary |-> DefaultAppInstanceSummary,
                      onboarding_status |-> [tag |-> "Unknown"]],
     apps |-> EmptyMap,
     vault_status |-> [tag |-> "Unknown"]]

(***************************************************************************)
(* The reducers of MonitorModel, as functions of the Model and the message.*)
(***************************************************************************)
update_app_status_insert_only(m, state) ==
    [m EXCEPT !.apps = IF state.uuid \in DOMAIN m.apps THEN m.apps
                       ELSE MapInsert(m.apps, state.uuid, AppInstanceFrom(state))]
update_app_status_by_state(m, state) ==
    [m EXCEPT !.apps = MapInsert(m.apps, state.state, AppInstanceFrom(state))]
update_app_status(m, state) ==
    [m EXCEPT !.apps = MapInsert(m.apps, state.uuid, AppInstanceFrom(state))]

update_app_list_merging(m, apps_list) ==
    [m EXCEPT !.apps = CollectApps(m.apps, apps_list.apps)]
update_app_list(m, apps_list) ==
    [m EXCEPT !.apps = AppsFrom(apps_list)]

update_downloader_status(m, status) ==
    [m EXCEPT !.downloader = Some(status)]

update_node_status(m, status) ==
    [m EXCEPT !.node_status = NodeStatusFrom(status)]

update_app_summary_resetting(m, app_summary) ==
    [m EXCEPT !.node_status =
        [DefaultMonitorModel.node_status EXCEPT !.app_summary = app_summary]]
update_app_summary(m, app_summary) ==
    [m EXCEPT !.node_status.app_summary = app_summary]

update_network_status_from_default(m, net_status) ==
    LET settings == get_network_settings(net_status)
    IN  [DefaultMonitorModel EXCEPT
            !.network = IF settings = None THEN <<>> ELSE settings[1]]
update_network_status(m, net_status) ==
    LET settings == get_network_settings(net_status)
    IN  [m EXCEPT !.network = IF settings = None THEN <<>> ELSE settings[1]]

update_vault_status(m, vault_status) ==
    [m EXCEPT !.vault_status = VaultStatusFrom(vault_status)]

update_onboarding_status(m, status) ==
    [m EXCEPT !.node_status.onboarding_status =
                  [tag |-> "Onboarded", uuid |-> status.device_uuid]]

(***************************************************************************)
(* A status update: the kind of message and the message.  The topics are   *)
(* the six of the concurrency model; app-status and app-list messages both *)
(* belong to the app topic.  Onboarding-status messages have their own     *)
(* reducer.                                                                *)
(***************************************************************************)
MsgsOf(kind) ==
    CASE kind = "network" -> DeviceNetworkStatusMsgs
      [] kind = "app_status" -> AppInstanceStatusMsgs
      [] kind = "app_list" -> AppsListMsgs
      [] kind = "vault" -> EveVaultStatusMsgs
      [] kind = "downloader" -> DownloaderStatusMsgs
      [] kind = "node" -> EveNodeStatusMsgs
      [] kind = "summary" -> AppInstanceSummaryMsgs
      [] kind = "onboarding" -> EveOnboardingStatusMsgs

Kinds == { "network", "app_status", "app_list", "vault", "downloader", "node",
           "summary", "onboarding" }

TopicOf(kind) == IF kind \in { "app_status", "app_list" } THEN "app" ELSE kind

Topics == { "network", "app", "vault", "downloader", "node", "summary" }

\* One ingestion task, with its channel, per topic and one for the
\* onboarding-status messages
Channels == Topics \cup { "onboarding" }

Updates == UNION { { [kind |-> k, msg |-> x] : x \in MsgsOf(k) } : k \in Kinds }

\* The reducer call an ingestion task makes for an update
Reduce(m, u) ==
    CASE u.kind = "network" -> update_network_status(m, u.msg)
      [] u.kind = "app_status" -> update_app_status(m, u.msg)
      [] u.kind = "app_list" -> update_app_list(m, u.msg)
      [] u.kind = "vault" -> update_vault_status(m, u.msg)
      [] u.kind = "downloader" -> update_downloader_status(m, u.msg)
      [] u.kind = "node" -> update_node_status(m, u.msg)
      [] u.kind = "summary" -> update_app_summary(m, u.msg)
      [] u.kind = "onboarding" -> update_onboarding_status(m, u.msg)

(***************************************************************************)
(* A few updates of every kind, which the specifications with histories    *)
(* draw their messages from.                                               *)
(***************************************************************************)
SampleMsgs(kind) ==
    CASE kind = "network" ->
           { x \in DeviceNetworkStatusMsgs :
               \/ x.ports = None
               \/ /\ x.ports # None
                  /\ Len(x.ports[1]) = MaxPorts
                  /\ \A i \in 1..MaxPorts :
                         x.ports[1][i].is_mgmt <=> (i = 1) }
      [] kind = "app_status" -> { x \in AppInstanceStatusMsgs : x.state = "Halted" }
      [] kind = "app_list" ->
           { x \in AppsListMsgs :
               /\ Len(x.apps) = 1
               /\ x.apps[1].state = "Running"
               /\ x.apps[1].uuid = "app-1" }
      [] kind = "vault" ->
           { x \in EveVaultStatusMsgs :
               /\ x.pcr_status = "PcrEnabled"
               /\ x.status \in { "DataSecAtRestEnabled", "DataSecAtRestError" }
               /\ Contains(x.error, VaultKeyUnavailable) }
      [] kind = "downloader" -> DownloaderStatusMsgs
      [] kind = "node" ->
           { x \in EveNodeStatusMsgs :
               (x.onboarded <=> x.node_uuid # None)
               /\ (x.onboarded <=> x.app_instance_summary # None) }
      [] kind = "summary" -> AppInstanceSummaryMsgs
      [] kind = "onboarding" -> EveOnboardingStatusMsgs

(***************************************************************************)
(* The Ui (src/ui/ui.rs): tabs, layer stacks, windows, events and actions. *)
(***************************************************************************)
\* enum UiTabs, by discriminant: Summary, Home, Network, Applications, Dmesg
TabCount == 5
UiTabs == 0..(TabCount - 1)
TabNames == <<"Summary", "Home", "Network", "Applications", "Dmesg">>

\* UiTabs::from_repr
from_repr(i) == IF i \in UiTabs THEN Some(i) ELSE None

\* UiTabs::previous, with usize::saturating_sub
previous_wrapping(tab) ==
    LET previous_index == IF tab = 0 THEN TabCount - 1 ELSE tab - 1
        r == from_repr(previous_index)
    IN  IF r = None THEN tab ELSE r[1]
previous(tab) ==
    LET previous_index == IF tab = 0 THEN 0 ELSE tab - 1
        r == from_repr(previous_index)
    IN  IF r = None THEN tab ELSE r[1]

\* UiTabs::next
next_unchecked(tab) == tab + 1
next(tab) ==
    LET next_index == tab + 1
        r == from_repr(next_index)
    IN  IF r = None THEN tab ELSE r[1]

\* Action::new(source, action)
NewAction(source, action) == [source |-> source, action |-> action]

Redraw == [tag |-> "Redraw"]
Quit == [tag |-> "Quit"]
DismissDialog == [tag |-> "DismissDialog"]
ButtonClicked(name) == [tag |-> "ButtonClicked", name |-> name]
\* an action of the application, such as the request to edit an interface
AppAction == [tag |-> "AppAction"]

\* The kinds of action a window of unknown code may emit
UiActionSamples ==
    { Redraw, DismissDialog, ButtonClicked("Ok"), ButtonClicked("Cancel"),
      ButtonClicked("Apply"), AppAction }

\* Events: key events (code and modifiers), the tick, and any other event
KeyEvent(code, modifiers) == [type |-> "Key", code |-> code, modifiers |-> modifiers]
Tick == [type |-> "Tick"]
OtherEvent == [type |-> "Other"]

KeySamples ==
    { KeyEvent("Esc", "NONE"), KeyEvent("Enter", "NONE"), KeyEvent("Tab", "NONE"),
      KeyEvent("Left", "CONTROL"), KeyEvent("Right", "CONTROL"),
      KeyEvent("Char_e", "NONE"),
      KeyEvent("Char_e", "CONTROL"), KeyEvent("Char_r", "CONTROL"),
      KeyEvent("Char_p", "CONTROL"), KeyEvent("Char_a", "CONTROL") }

\* The windows.  A page is the window Ui::init pushes on its tab; a dialog
\* is what create_ip_dialog builds: a name, its buttons and the inner
\* window w, whose state is the index of the focused button.
Page(tab) == [kind |-> "page", name |-> TabNames[tab + 1]]
DialogButtons == <<"Ok", "Cancel">>
IpDialog(focused) ==
    [kind |-> "dialog", name |-> "IP settings", buttons |-> DialogButtons,
     w |-> [focused |-> focused]]

\* LayerStack: push appends on top, pop removes and returns the top or
\* returns None on an empty stack, last_mut is the top
StackPush(stack, window) == Append(stack, window)
StackPop(stack) ==
    IF stack = <<>> THEN [stack |-> stack, popped |-> None]
    ELSE [stack |-> SubSeq(stack, 1, Len(stack) - 1),
          popped |-> Some(stack[Len(stack)])]
StackLast(stack) == IF stack = <<>> THEN None ELSE Some(stack[Len(stack)])

\* The layers Ui::draw renders, in the order it renders them, each with the
\* focused flag it passes: index == last_index, counted from 0
RenderPassFirstFocused(stack) ==
    [i \in 1..Len(stack) |->
        [layer |-> i, window |-> stack[i], focused |-> (i - 1) = 0]]
RenderPass(stack) ==
    LET last_index == IF Len(stack) = 0 THEN 0 ELSE Len(stack) - 1
    IN  [i \in 1..Len(stack) |->
            [layer |-> i, window |-> stack[i], focused |-> (i - 1) = last_index]]

\* Ui::push_layer and Ui::pop_layer, on the stack of the selected tab
push_layer_first_tab(vs, tab, d) == [vs EXCEPT ![0] = StackPush(vs[0], d)]
push_layer(vs, tab, d) == [vs EXCEPT ![tab] = StackPush(vs[tab], d)]
pop_layer_bottom(vs, tab) ==
    [views |-> [vs EXCEPT ![tab] = IF vs[tab] = <<>> THEN <<>> ELSE Tail(vs[tab])],
     popped |-> IF vs[tab] = <<>> THEN None ELSE Some(Head(vs[tab]))]
pop_layer(vs, tab) ==
    [views |-> [vs EXCEPT ![tab] = StackPop(vs[tab]).stack],
     popped |-> StackPop(vs[tab]).popped]

(***************************************************************************)
(* Event handlers of the windows.  Each returns the window after the call, *)
(* the action it emits (None or Some) and, for a dialog, what the handler  *)
(* of its inner window returned: None when it was not invoked, Some of its *)
(* result when it was.  The argument r stands for what code outside these  *)
(* files decides: the action the window answers with.                      *)
(***************************************************************************)
Handled(window, action, inner) ==
    [window |-> window, action |-> action, inner |-> inner]

\* The answers a page outside these files may give to an event
PageAnswers(page) ==
    { None } \cup { Some(NewAction(page.name, a)) : a \in UiActionSamples }

\* HomePage::handle_event
HomePageHandleEvent(page, event) == Handled(page, None, None)

\* The inner window of a dialog: Tab moves the focus to the next button,
\* Enter clicks the focused button, another key is answered with r
InnerAnswers(dialog, key) ==
    IF key.code \in { "Tab", "Enter" } THEN { None }
    ELSE { None, Some(NewAction("content", AppAction)),
           Some(NewAction("content", Redraw)),
           Some(NewAction("Apply", ButtonClicked("Apply"))) }

InnerHandleKeyEvent(dialog, key, r) ==
    CASE key.code = "Tab" ->
           [w |-> [focused |-> (dialog.w.focused % Len(dialog.buttons)) + 1],
            action |-> None]
      [] key.code = "Enter" ->
           [w |-> dialog.w,
            action |-> Some(NewAction(dialog.buttons[dialog.w.focused],
                                      ButtonClicked(dialog.buttons[dialog.w.focused])))]
      [] OTHER -> [w |-> dialog.w, action |-> r]

\* The translation Dialog::handle_key_event makes of the inner window's action
TranslateForwardsButtons(dialog, action) ==
    IF action # None
    THEN IF action[1].action.tag = "ButtonClicked" /\ action[1].action.name = "Cancel"
         THEN Some(NewAction(dialog.name, DismissDialog))
         ELSE action
    ELSE None
TranslateDropsOthers(dialog, action) ==
    IF action # None
    THEN IF action[1].action.tag = "ButtonClicked" /\ action[1].action.name = "Cancel"
         THEN Some(NewAction(dialog.name, DismissDialog))
         ELSE None
    ELSE None
TranslateKeepsCancel(dialog, action) ==
    IF action # None
    THEN IF action[1].action.tag = "ButtonClicked" THEN None ELSE action
    ELSE None
Translate(dialog, action) ==
    IF action # None
    THEN IF action[1].action.tag = "ButtonClicked"
         THEN IF action[1].action.name = "Cancel"
              THEN Some(NewAction(dialog.name, DismissDialog))
              ELSE None
         ELSE action
    ELSE None

\* Dialog::handle_key_event
DialogEscapeToInner(dialog, key, r) ==
    LET inner == InnerHandleKeyEvent(dialog, key, r)
        after == [dialog EXCEPT !.w = inner.w]
    IN  Handled(after, Translate(dialog, inner.action), Some(inner.action))
DialogEscapeAfterInner(dialog, key, r) ==
    LET inner == InnerHandleKeyEvent(dialog, key, r)
        after == [dialog EXCEPT !.w = inner.w]
    IN  IF key.code = "Esc"
        THEN Handled(after, Some(NewAction(dialog.name, DismissDialog)),
                     Some(inner.action))
        ELSE Handled(after, Translate(dialog, inner.action), Some(inner.action))
DialogHandleKeyEvent(dialog, key, r) ==
    IF key.code = "Esc"
    THEN Handled(dialog, Some(NewAction(dialog.name, DismissDialog)), None)
    ELSE LET inner == InnerHandleKeyEvent(dialog, key, r)
             after == [dialog EXCEPT !.w = inner.w]
         IN  Handled(after, Translate(dialog, inner.action), Some(inner.action))

\* The answers r that can be given to a key event by the window
KeyAnswers(window, key) ==
    CASE window.kind = "dialog" -> InnerAnswers(window, key)
      [] window.name = "Home" -> { None }
      [] OTHER -> PageAnswers(window)

\* IEventHandler::handle_event of a layer, for a key event
WindowHandleKey(window, key, r) ==
    CASE window.kind = "dialog" -> DialogHandleKeyEvent(window, key, r)
      [] window.name = "Home" -> HomePageHandleEvent(window, key)
      [] OTHER -> Handled(window, r, None)

\* The answers of a window to a tick: a window outside these files may ask
\* for a redraw
TickAnswers(window) ==
    IF window.kind = "page" /\ window.name = "Home" THEN { None }
    ELSE { None, Some(NewAction(window.name, Redraw)) }

\* The iteration of the loop when its steps are not followed one by one:
\* actions are received and frames drawn at any time between two events
FreeTurn ==
    [pc |-> "free", snapshot |-> 0, budget |-> 0, late |-> 0,
     redraws |-> 0, draws |-> 0, parity |-> 0]

(***************************************************************************)
(* Initial states.                                                         *)
(***************************************************************************)
Init ==
    /\ model = DefaultMonitorModel
    /\ borrow = 0
    /\ writer = None
    /\ committed = DefaultMonitorModel
    /\ frame = None
    /\ arrived = [t \in Channels |-> <<>>]
    /\ applied = [t \in Channels |-> 0]
    /\ views = [t \in UiTabs |-> <<Page(t)>>]
    /\ selected_tab = 0
    /\ action_tx = <<>>
    /\ last = None
    /\ debug_assertions = TRUE
    /\ panicked = FALSE
    /\ focus = [ids |-> <<>>, cursor |-> None]
    /\ process = [phase |-> "running", raw_mode |-> TRUE, cancelled |-> FALSE,
                 exit |-> None]
    /\ turn = FreeTurn
    /\ modal = [dialog |-> IpDialog(1), w_has_focus |-> FALSE]
    /\ calls = <<>>

(***************************************************************************)
(* Spec: the reducers applied one whole call at a time, in any order, to   *)
(* any message.                                                            *)
(***************************************************************************)
Apply(kind, msgs) ==
    \E x \in msgs :
        /\ model' = Reduce(model, [kind |-> kind, msg |-> x])
        /\ committed' = model'
        /\ UNCHANGED <<borrow, writer, frame, arrived, applied>>
        /\ UNCHANGED <<uiVars, labVars>>

UpdateNetworkStatus == Apply("network", MsgsOf("network"))
UpdateAppStatus == Apply("app_status", MsgsOf("app_status"))
UpdateAppList == Apply("app_list", MsgsOf("app_list"))
UpdateVaultStatus == Apply("vault", MsgsOf("vault"))
UpdateDownloaderStatus == Apply("downloader", MsgsOf("downloader"))
UpdateNodeStatus == Apply("node", MsgsOf("node"))
UpdateAppSummary == Apply("summary", MsgsOf("summary"))
UpdateOnboardingStatus == Apply("onboarding", MsgsOf("onboarding"))

Next ==
    \/ UpdateNetworkStatus
    \/ UpdateAppStatus
    \/ UpdateAppList
    \/ UpdateVaultStatus
    \/ UpdateDownloaderStatus
    \/ UpdateNodeStatus
    \/ UpdateAppSummary
    \/ UpdateOnboardingStatus

Spec == Init /\ [][Next]_vars

\* The two orders of applying updates a and b to Model m give the same Model
Commute(m, a, b) == Reduce(Reduce(m, a), b) = Reduce(Reduce(m, b), a)

UpdatesByTopic == [t \in Topics |-> { u \in Updates : TopicOf(u.kind) = t }]

TopicUpdates(t) == UpdatesByTopic[t]

\* The pairs of different topics, each pair once
TopicPairs ==
    { p \in SUBSET Topics : Cardinality(p) = 2 }

CommuteOn(pairs) ==
    \A p \in pairs :
        LET t1 == CHOOSE t \in p : TRUE
            t2 == CHOOSE t \in p : t # t1
        IN  \A a \in TopicUpdates(t1) : \A b \in TopicUpdates(t2) :
                Commute(model, a, b)

\* C1: in every reachable Model state, any two updates of
\* different topics (network, app, vault, downloader, node, summary) give the
\* same final Model whichever is applied first.
C1_AllTopicsCommute == CommuteOn(TopicPairs)

(***************************************************************************)
(* SpecIngest: the ingestion tasks and the render loop sharing the Model.  *)
(* Each task receives the updates of its topic and calls the reducer under *)
(* a mutable borrow of the RefCell; Ui::draw reads the Model under a       *)
(* shared borrow.  A reducer call is three steps (borrow, a write in       *)
(* progress, the completed write and release), so that any other task or   *)
(* the render loop may be scheduled between them unless the RefCell        *)
(* forbids it.                                                             *)
(***************************************************************************)
\* RefCell::try_borrow_mut succeeds only when there is no borrow at all
CanBorrowMut(flag) == flag = 0

\* RefCell::try_borrow succeeds unless the value is mutably borrowed
CanBorrowBroken(flag) == TRUE
CanBorrow(flag) == flag >= 0

Total(f) ==
    LET RECURSIVE Sum(_)
        Sum(S) == IF S = {} THEN 0
                  ELSE LET t == CHOOSE x \in S : TRUE
                       IN  Len(f[t]) + Sum(S \ {t})
    IN  Sum(DOMAIN f)

\* The next update the task of topic t takes from its channel: the oldest
\* one not yet applied
NextUpdate(t) == arrived[t][applied[t] + 1]

\* The Model while the assignment of reducer call u is in progress: part of
\* the new value is written, the rest is still the old one
Torn(m, u) ==
    CASE u.kind = "node" ->
           [m EXCEPT !.node_status.server = NodeStatusFrom(u.msg).server]
      [] u.kind = "app_list" /\ u.msg.apps # <<>> ->
           [m EXCEPT !.apps = MapInsert(m.apps, Head(u.msg.apps).uuid,
                                        AppInstanceFrom(Head(u.msg.apps)))]
      [] u.kind = "network" ->
           LET new == update_network_status(m, u.msg).network
           IN  [m EXCEPT !.network = IF new = <<>> THEN new ELSE <<new[1]>>]
      [] OTHER -> m

Arrive ==
    \E kind \in Kinds : \E x \in SampleMsgs(kind) :
        /\ Total(arrived) < MaxArrivals
        /\ arrived' = [arrived EXCEPT ![TopicOf(kind)] =
                           Append(@, [kind |-> kind, msg |-> x])]
        /\ UNCHANGED <<model, borrow, writer, committed, frame, applied>>
        /\ UNCHANGED <<uiVars, labVars>>

InProgress == writer # None /\ writer[1].step # "done"

BeginReduce ==
    \E t \in Channels :
        /\ ~InProgress
        /\ applied[t] < Len(arrived[t])
        /\ CanBorrowMut(borrow)
        /\ borrow' = -1
        /\ writer' = Some([topic |-> t, update |-> NextUpdate(t), step |-> "begun"])
        /\ UNCHANGED <<model, committed, frame, arrived, applied>>
        /\ UNCHANGED <<uiVars, labVars>>

WriteReduce ==
    /\ writer # None
    /\ writer[1].step = "begun"
    /\ model' = Torn(model, writer[1].update)
    /\ writer' = Some([writer[1] EXCEPT !.step = "torn"])
    /\ UNCHANGED <<borrow, committed, frame, arrived, applied>>
    /\ UNCHANGED <<uiVars, labVars>>

EndReduce ==
    /\ writer # None
    /\ writer[1].step = "torn"
    /\ model' = Reduce(committed, writer[1].update)
    /\ committed' = model'
    /\ applied' = [applied EXCEPT ![writer[1].topic] = @ + 1]
    /\ writer' = Some([writer[1] EXCEPT !.step = "done"])
    /\ borrow' = 0
    /\ UNCHANGED <<frame, arrived>>
    /\ UNCHANGED <<uiVars, labVars>>

\* Ui::draw: every layer renders from the Model, read under a shared borrow
Draw ==
    /\ ~panicked
    /\ process.phase = "running"
    /\ CanBorrow(borrow)
    /\ frame' = Some([seen |-> model, whole |-> committed,
                      tab |-> selected_tab,
                      layers |-> RenderPass(views[selected_tab]),
                      status_bar |-> [focused |-> FALSE]])
    /\ last' = None
    /\ UNCHANGED <<model, borrow, writer, committed, arrived, applied>>
    /\ UNCHANGED <<views, selected_tab, action_tx, debug_assertions, panicked>>
    /\ UNCHANGED labVars

NextIngest ==
    \/ Arrive
    \/ BeginReduce
    \/ WriteReduce
    \/ EndReduce
    \/ Draw

SpecIngest == Init /\ [][NextIngest]_vars

\* C2: every Model state Ui::draw reads is the Model as the completed reducer
\* calls left it; no draw sees a reducer call partly applied.
C2_DrawSeesWholeReducers ==
    frame # None => frame[1].seen = frame[1].whole

\* C2 witness: a draw has read a Model that reducers have changed, and a
\* reducer call is now in progress with the Model partly written
C2_Witness ==
    /\ frame # None
    /\ frame[1].seen # DefaultMonitorModel
    /\ InProgress
    /\ model # committed

\* The part of the Model that the reducers of a topic write
Frag(t, m) ==
    CASE t = "network" -> m.network
      [] t = "app" -> m.apps
      [] t = "vault" -> m.vault_status
      [] t = "downloader" -> m.downloader
      [] t = "node" -> m.node_status
      [] t = "summary" -> m.node_status.app_summary
      [] t = "onboarding" -> m.node_status.onboarding_status

\* The fold of the reducers over a sequence of updates
RECURSIVE FoldUpdates(_, _)
FoldUpdates(m, us) ==
    IF us = <<>> THEN m ELSE FoldUpdates(Reduce(m, Head(us)), Tail(us))

\* The topic's fragment after its first k updates, applied in arrival order
FoldTopic(t, k) == Frag(t, FoldUpdates(DefaultMonitorModel, SubSeq(arrived[t], 1, k)))

InOrder(t) == Frag(t, committed) = FoldTopic(t, applied[t])

\* The topic's fragment is what its most recently applied message alone gives
ReflectsLatest(t) ==
    applied[t] > 0 =>
        Frag(t, committed) = Frag(t, Reduce(DefaultMonitorModel, arrived[t][applied[t]]))

\* C3: after k messages of a topic have been applied, the topic's fragment
\* of the Model is the fold of its reducer over these k messages in arrival
\* order, for each of the six topics and at all times; and the fragment of
\* a topic replaced wholesale is what its most recently applied message
\* gives.
C3_FragmentIsFoldInArrivalOrder ==
    \A t \in Topics :
        /\ InOrder(t)
        /\ t # "app" => ReflectsLatest(t)

(***************************************************************************)
(* Ui::handle_event (src/ui/ui.rs), one action per arm of its match.  The  *)
(* top-level loop handles one event, then receives the actions the event   *)
(* queued on the bus before it handles the next.                           *)
(***************************************************************************)
IsCtrlChar(key, code) == key.code = code /\ key.modifiers = "CONTROL"

\* The key events that reach the last Event::Key arm: those the guarded
\* arms before it do not take
ReachesForwarding(key, debug) ==
    /\ ~IsCtrlChar(key, "Char_e")
    /\ ~IsCtrlChar(key, "Char_r")
    /\ ~IsCtrlChar(key, "Char_p")
    /\ ~(IsCtrlChar(key, "Char_a") /\ debug)

\* What one call of handle_event did: the event, the selected tab and the
\* depth of its stack at the call, the top layer at the call and what its
\* handler returned, the value handle_event returned, the result of
\* pop_layer if it was called, the layers ticked (indexes from the bottom)
\* with their answers, and the ticks and the answer of the status bar.
Observation(event) ==
    [event |-> event, tab |-> selected_tab, depth |-> Len(views[selected_tab]),
     top |-> StackLast(views[selected_tab]), keyed |-> <<>>, handled |-> None,
     result |-> None, pops |-> 0, popped |-> None,
     ticked |-> <<>>, answers |-> <<>>, status_ticks |-> 0, status_answer |-> None]

\* Interpretation of the action the top layer returned (the match on
\* action.action): pop the layer, swallow the action, or return it
InterpretSwallowOk(action) ==
    CASE action.action.tag = "DismissDialog" -> "pop"
      [] action.action.tag = "ButtonClicked" ->
           IF action.action.name \in { "Cancel" } THEN "pop" ELSE "swallow"
      [] OTHER -> "return"
Interpret(action) ==
    CASE action.action.tag = "DismissDialog" -> "pop"
      [] action.action.tag = "ButtonClicked" ->
           IF action.action.name \in { "Ok", "Cancel" } THEN "pop" ELSE "swallow"
      [] OTHER -> "return"

\* The tab-switch shortcuts at the end of the Event::Key arm
SwitchTab(tab, key) ==
    LET after_left == IF key.modifiers = "CONTROL" /\ key.code = "Left"
                      THEN previous(tab) ELSE tab
    IN  IF key.modifiers = "CONTROL" /\ key.code = "Right"
        THEN next(after_left) ELSE after_left

\* Ui::invalidate
invalidate(bus) == Append(bus, NewAction("app", Redraw))

\* The number of dialogs open, over all tabs
TotalDialogs(vs) ==
    Cardinality({ p \in UiTabs \X (1..(MaxDialogs + 1)) :
                    /\ p[2] <= Len(vs[p[1]])
                    /\ vs[p[1]][p[2]].kind = "dialog" })

\* The loop goes on taking events after it has received a Quit
CanHandleAfterQuit ==
    /\ ~panicked /\ process.phase # "exited" /\ last = None
    /\ IF turn.pc = "free" THEN action_tx = <<>> ELSE turn.pc = "event"

\* The loop takes the next event once the actions on the bus are received
\* and the frame of this turn is drawn: the record of the previous call of
\* handle_event is dropped by then.  When the steps of an iteration are
\* followed one by one, the event is the first of them
CanHandle ==
    /\ ~panicked /\ process.phase = "running" /\ last = None
    /\ IF turn.pc = "free" THEN action_tx = <<>> ELSE turn.pc = "event"

\* Event::Key Ctrl+e: queue Quit
HandleEventCtrlE ==
    /\ CanHandle
    /\ \E key \in KeySamples :
        /\ IsCtrlChar(key, "Char_e")
        /\ action_tx' = Append(action_tx, NewAction("user", Quit))
        /\ last' = Some(Observation(key))
    /\ UNCHANGED <<views, selected_tab, debug_assertions, panicked>>
    /\ frame' = None
    /\ UNCHANGED <<storeVars, labVars>>

\* Event::Key Ctrl+r: queue Redraw
HandleEventCtrlR ==
    /\ CanHandle
    /\ \E key \in KeySamples :
        /\ IsCtrlChar(key, "Char_r")
        /\ action_tx' = invalidate(action_tx)
        /\ last' = Some(Observation(key))
    /\ UNCHANGED <<views, selected_tab, debug_assertions, panicked>>
    /\ frame' = None
    /\ UNCHANGED <<storeVars, labVars>>

\* Event::Key Ctrl+p: pop the top layer of the selected tab
HandleEventCtrlP ==
    /\ CanHandle
    /\ \E key \in KeySamples :
        /\ IsCtrlChar(key, "Char_p")
        /\ LET p == pop_layer(views, selected_tab)
           IN  /\ views' = p.views
               /\ last' = Some([Observation(key) EXCEPT !.pops = 1,
                                                        !.popped = p.popped])
    /\ UNCHANGED <<selected_tab, action_tx, debug_assertions, panicked>>
    /\ frame' = None
    /\ UNCHANGED <<storeVars, labVars>>

\* Event::Key Ctrl+a handled by aborting the process on the spot: nothing
\* unwinds, no scope is left
HandleEventCtrlAAbort ==
    /\ CanHandle
    /\ \E key \in KeySamples :
        /\ IsCtrlChar(key, "Char_a")
        /\ debug_assertions
        /\ panicked' = TRUE
        /\ last' = Some(Observation(key))
    /\ process' = [process EXCEPT !.phase = "exited", !.exit = Some("panic")]
    /\ UNCHANGED <<views, selected_tab, action_tx, debug_assertions>>
    /\ frame' = None
    /\ UNCHANGED <<storeVars, focus, turn, modal, calls>>

\* Event::Key Ctrl+a in a build with debug assertions: panic
HandleEventCtrlA ==
    /\ CanHandle
    /\ \E key \in KeySamples :
        /\ IsCtrlChar(key, "Char_a")
        /\ debug_assertions
        /\ panicked' = TRUE
        /\ last' = Some(Observation(key))
    /\ UNCHANGED <<views, selected_tab, action_tx, debug_assertions>>
    /\ frame' = None
    /\ UNCHANGED <<storeVars, labVars>>

\* self.views[self.selected_tab as usize].last_mut()?: the layer the key is
\* forwarded to, as an index from the bottom, or the early return on an
\* empty stack
TryTopBottom(stack) ==
    IF stack = <<>> THEN [outcome |-> "return"]
    ELSE [outcome |-> "forward", index |-> 1]
TryTopUnwrap(stack) ==
    IF stack = <<>> THEN [outcome |-> "panic"]
    ELSE [outcome |-> "forward", index |-> Len(stack)]
TryTop(stack) ==
    IF stack = <<>> THEN [outcome |-> "return"]
    ELSE [outcome |-> "forward", index |-> Len(stack)]

\* Event::Key, any other key: forward to the top layer of the selected
\* tab, interpret the action it returns, then check the tab shortcuts
HandleEventKey ==
    /\ CanHandle
    /\ \E key \in KeySamples :
        /\ ReachesForwarding(key, debug_assertions)
        /\ LET stack == views[selected_tab]
               t == TryTop(stack)
           IN  CASE t.outcome = "return" ->
                    \* last_mut()? returns None at once
                    /\ last' = Some(Observation(key))
                    /\ UNCHANGED <<views, selected_tab, panicked>>
                 [] t.outcome = "panic" ->
                    /\ panicked' = TRUE
                    /\ last' = Some(Observation(key))
                    /\ UNCHANGED <<views, selected_tab>>
                 [] t.outcome = "forward" ->
                    \E r \in KeyAnswers(stack[t.index], key) :
                    LET h == WindowHandleKey(stack[t.index], key, r)
                        handled == [views EXCEPT ![selected_tab][t.index] = h.window]
                        verdict == IF h.action = None THEN "none"
                                   ELSE Interpret(h.action[1])
                        p == pop_layer(handled, selected_tab)
                    IN  /\ views' = IF verdict = "pop" THEN p.views ELSE handled
                        /\ selected_tab' = IF verdict = "return" THEN selected_tab
                                           ELSE SwitchTab(selected_tab, key)
                        /\ last' = Some([Observation(key) EXCEPT
                              !.keyed = <<t.index>>,
                              !.handled = Some(h),
                              !.result = IF verdict = "return" THEN h.action ELSE None,
                              !.pops = IF verdict = "pop" THEN 1 ELSE 0,
                              !.popped = IF verdict = "pop" THEN p.popped ELSE None])
                        /\ UNCHANGED panicked
    /\ UNCHANGED <<action_tx, debug_assertions>>
    /\ frame' = None
    /\ UNCHANGED <<storeVars, labVars>>

\* The layers the tick is delivered to, as indexes from the bottom
TickTargetsTopOnly(stack) == IF stack = <<>> THEN <<>> ELSE <<Len(stack)>>
TickTargets(stack) == [i \in 1..Len(stack) |-> i]

\* The answers the layers may give to one tick each, in delivery order
RECURSIVE TickAnswerSeqs(_, _)
TickAnswerSeqs(stack, targets) ==
    IF targets = <<>> THEN { <<>> }
    ELSE { <<a>> \o rest : a \in TickAnswers(stack[Head(targets)]),
                           rest \in TickAnswerSeqs(stack, Tail(targets)) }

\* The status bar is a window outside these files
StatusBarAnswers == { None, Some(NewAction("status bar", Redraw)) }

\* The actions sent on the bus for the answers of the layers
RECURSIVE TickSends(_)
TickSends(answers) ==
    IF answers = <<>> THEN <<>>
    ELSE Head(answers) \o TickSends(Tail(answers))

\* Event::Tick: tick every layer of the selected tab, then the status bar
HandleEventTick ==
    /\ CanHandle
    /\ LET stack == views[selected_tab]
           targets == TickTargets(stack)
       IN  \E answers \in TickAnswerSeqs(stack, targets), sa \in StatusBarAnswers :
            /\ action_tx' = action_tx \o TickSends(answers)
            /\ last' = Some([Observation(Tick) EXCEPT
                  !.ticked = targets, !.answers = answers,
                  !.status_ticks = 1, !.status_answer = sa])
    /\ UNCHANGED <<views, selected_tab, debug_assertions, panicked>>
    /\ frame' = None
    /\ UNCHANGED <<storeVars, labVars>>

\* Any other event is not handled
HandleEventOther ==
    /\ CanHandle
    /\ last' = Some(Observation(OtherEvent))
    /\ UNCHANGED <<views, selected_tab, action_tx, debug_assertions, panicked>>
    /\ frame' = None
    /\ UNCHANGED <<storeVars, labVars>>

\* Ui::show_ip_dialog: push the dialog create_ip_dialog builds
ShowIpDialog ==
    /\ CanHandle
    /\ TotalDialogs(views) < MaxDialogs
    /\ \E focused \in 1..Len(DialogButtons) :
        views' = push_layer(views, selected_tab, IpDialog(focused))
    /\ last' = None
    /\ UNCHANGED <<selected_tab, action_tx, debug_assertions, panicked>>
    /\ frame' = None
    /\ UNCHANGED <<storeVars, labVars>>

\* The top-level loop receives one action from the bus; a Quit ends the
\* loop and cancels the token the ingestion tasks watch
Receive ==
    /\ ~panicked
    /\ process.phase = "running"
    /\ action_tx # <<>>
    /\ action_tx' = Tail(action_tx)
    /\ process' = IF Head(action_tx).action = Quit
                  THEN [process EXCEPT !.phase = "stopping", !.cancelled = TRUE,
                                       !.exit = Some("quit")]
                  ELSE process
    /\ last' = None
    /\ UNCHANGED <<views, selected_tab, debug_assertions, panicked>>
    /\ frame' = None
    /\ UNCHANGED <<storeVars, focus, turn, modal, calls>>

NextUi ==
    \/ HandleEventCtrlE
    \/ HandleEventCtrlR
    \/ HandleEventCtrlP
    \/ HandleEventCtrlA
    \/ HandleEventKey
    \/ HandleEventTick
    \/ HandleEventOther
    \/ ShowIpDialog
    \/ Receive
    \/ Draw

SpecUi == Init /\ [][NextUi]_vars

(***************************************************************************)
(* Claims about Ui::handle_event and Dialog::handle_key_event.             *)
(***************************************************************************)
\* The actions that dismiss the top layer
IsPopAction(a) ==
    \/ a.tag = "DismissDialog"
    \/ a.tag = "ButtonClicked" /\ a.name \in { "Ok", "Cancel" }

\* The call observed forwarded a key to the top layer, which returned an action
ReturnedAction(o) == o # None /\ o[1].handled # None /\ o[1].handled[1].action # None
LayerAction(o) == o[1].handled[1].action[1]

\* The views after the top layer of the tab has been left as w
WithTop(vs, tab, w) == [vs EXCEPT ![tab][Len(vs[tab])] = w]
\* The views after the top layer of the tab has been removed
WithoutTop(vs, tab) == [vs EXCEPT ![tab] = SubSeq(@, 1, Len(@) - 1)]

\* C4: when the top layer answers a forwarded key with DismissDialog,
\* ButtonClicked("Ok") or ButtonClicked("Cancel"), handle_event pops
\* exactly the top layer of the selected tab, every other layer of every
\* tab stays where it was, and handle_event returns no action.
C4_PopsTopAndReturnsNothing ==
    [][ (ReturnedAction(last') /\ IsPopAction(LayerAction(last').action))
        => /\ last'[1].result = None
           /\ last'[1].pops = 1
           /\ last'[1].popped = Some(last'[1].handled[1].window)
           /\ views' = WithoutTop(views, selected_tab) ]_vars

C4_Witness ==
    /\ ReturnedAction(last)
    /\ LayerAction(last).action = DismissDialog
    /\ last[1].depth >= 2
    /\ Len(views[last[1].tab]) = last[1].depth - 1
    /\ last[1].result = None

\* C5: every action the top layer returns, other than
\* DismissDialog, ButtonClicked("Ok") and ButtonClicked("Cancel"), is
\* returned unchanged by handle_event and no layer is popped.
C5_EveryOtherActionReturned ==
    [][ (ReturnedAction(last') /\ ~IsPopAction(LayerAction(last').action))
        => /\ last'[1].result = Some(LayerAction(last'))
           /\ last'[1].pops = 0
           /\ views' = WithTop(views, selected_tab, last'[1].handled[1].window) ]_vars

\* C6: for every key that reaches the forwarding step, whether
\* the top layer consumed it or returned an action, Ctrl+Left on a tab that
\* is not the first selects the previous tab and Ctrl+Right on a tab that
\* is not the last selects the next tab.
C6_TabShortcutsAlwaysChecked ==
    [][ ( /\ last' # None
          /\ last'[1].event.type = "Key"
          /\ ReachesForwarding(last'[1].event, debug_assertions)
          /\ last'[1].event.modifiers = "CONTROL" )
        => /\ (last'[1].event.code = "Left" /\ selected_tab # 0)
                => selected_tab' = selected_tab - 1
           /\ (last'[1].event.code = "Right" /\ selected_tab # TabCount - 1)
                => selected_tab' = selected_tab + 1 ]_vars

\* C7: a Tick is delivered once to every layer of the selected tab's
\* stack, from the bottom to the top, and once to the status bar.
C7_TickReachesEveryLayer ==
    (last # None /\ last[1].event.type = "Tick")
        => /\ Len(last[1].ticked) = last[1].depth
           /\ \A i \in 1..last[1].depth : last[1].ticked[i] = i
           /\ last[1].status_ticks = 1

C7_Witness ==
    /\ last # None
    /\ last[1].event.type = "Tick"
    /\ last[1].depth >= 2
    /\ last[1].top[1].kind = "dialog"
    /\ Len(last[1].ticked) = last[1].depth

\* The actions a sequence of answers holds, in order
Produced(answers) ==
    LET some == SelectSeq(answers, LAMBDA a : a # None)
    IN  [i \in 1..Len(some) |-> some[i][1]]

\* C8: after a Tick the bus holds, in delivery order, the action
\* of every delivery that produced one, the status bar's included.
C8_EveryTickActionQueued ==
    [][ (last' # None /\ last'[1].event.type = "Tick")
        => action_tx' = action_tx \o
             Produced(last'[1].answers \o <<last'[1].status_answer>>) ]_vars

\* The call observed gave a key to a dialog on top of the stack
DialogGotKey(o) ==
    /\ o # None
    /\ o[1].handled # None
    /\ o[1].top[1].kind = "dialog"

\* C9: Escape on a dialog yields the dismiss action of the dialog; the
\* handler of the inner window is not invoked and the dialog, its inner
\* window included, is left as it was.
C9_EscapeDismissesWithoutInner ==
    (DialogGotKey(last) /\ last[1].event.code = "Esc")
        => /\ last[1].handled[1].action =
                Some(NewAction(last[1].top[1].name, DismissDialog))
           /\ last[1].handled[1].inner = None
           /\ last[1].handled[1].window = last[1].top[1]

C9_Witness ==
    /\ DialogGotKey(last)
    /\ last[1].event.code = "Esc"
    /\ last[1].top[1].w.focused = 2
    /\ last[1].handled[1].action # None

\* C10: for a key other than Escape, when the inner window returns
\* ButtonClicked("Cancel") the dialog returns the dismiss action under its
\* own name.
C10_CancelBecomesDismiss ==
    ( /\ DialogGotKey(last)
      /\ last[1].event.code # "Esc"
      /\ last[1].handled[1].inner # None
      /\ last[1].handled[1].inner[1] # None
      /\ last[1].handled[1].inner[1][1].action = ButtonClicked("Cancel") )
        => last[1].handled[1].action =
             Some(NewAction(last[1].top[1].name, DismissDialog))

C10_Witness ==
    /\ DialogGotKey(last)
    /\ last[1].event.code = "Enter"
    /\ last[1].handled[1].inner = Some(Some(NewAction("Cancel", ButtonClicked("Cancel"))))
    /\ last[1].handled[1].action = Some(NewAction(last[1].top[1].name, DismissDialog))

\* The dialog on top got a key other than Escape and its inner window
\* answered with an action
InnerReturned(o) ==
    /\ DialogGotKey(o)
    /\ o[1].event.code # "Esc"
    /\ o[1].handled[1].inner # None
    /\ o[1].handled[1].inner[1] # None
InnerAction(o) == o[1].handled[1].inner[1][1]

C12_OtherInnerActionsForwarded ==
    ( /\ DialogGotKey(last)
      /\ last[1].event.code # "Esc" )
        => /\ last[1].handled[1].inner # None
           /\ last[1].handled[1].inner[1] = None
                => last[1].handled[1].action = None
           /\ ( /\ last[1].handled[1].inner[1] # None
                /\ InnerAction(last).action.tag # "ButtonClicked" )
                => last[1].handled[1].action = last[1].handled[1].inner[1]

C12_Witness ==
    /\ InnerReturned(last)
    /\ InnerAction(last).action = AppAction
    /\ last[1].handled[1].action = Some(InnerAction(last))

(***************************************************************************)
(* The layer stack of the selected tab under push_layer and pop_layer      *)
(* alone.  Ui::init pushed the page of the tab; calls records every call   *)
(* with the stack before and after it.                                     *)
(***************************************************************************)
StackWindows == { IpDialog(f) : f \in 1..Len(DialogButtons) }

StackPushLayer ==
    /\ Len(calls) < MaxCalls
    /\ \E w \in StackWindows :
        /\ views' = push_layer(views, selected_tab, w)
        /\ calls' = Append(calls, [op |-> "push", window |-> Some(w),
                                   before |-> views[selected_tab],
                                   after |-> views'[selected_tab]])
    /\ UNCHANGED <<modelVars, selected_tab, action_tx, last,
                   debug_assertions, panicked, focus, process, turn, modal>>

StackPopLayer ==
    /\ Len(calls) < MaxCalls
    /\ LET r == pop_layer(views, selected_tab)
       IN  /\ views' = r.views
           /\ calls' = Append(calls, [op |-> "pop", window |-> r.popped,
                                      before |-> views[selected_tab],
                                      after |-> r.views[selected_tab]])
    /\ UNCHANGED <<modelVars, selected_tab, action_tx, last,
                   debug_assertions, panicked, focus, process, turn, modal>>

NextStack ==
    \/ StackPushLayer
    \/ StackPopLayer

SpecStack == Init /\ [][NextStack]_vars

\* The calls so far are some pushes followed by some pops
PushesThenPops(n) ==
    /\ n <= Len(calls)
    /\ \A i \in 1..Len(calls) : calls[i].op = (IF i <= n THEN "push" ELSE "pop")

\* Everything pushed so far: the page by Ui::init, then the first n calls
Pushed(n) == <<Page(selected_tab)>> \o [i \in 1..n |-> calls[i].window[1]]

\* C13: the layer stack is last-in first-out.  After the pushes, the j-th
\* pop returns the window pushed j-th from the end, the stack keeps the
\* windows not yet popped in push order and is empty once all are popped;
\* a pop on an empty stack returns no value and leaves the stack empty
C13_LayerStackIsLifo ==
    /\ \A n \in 0..Len(calls) :
        PushesThenPops(n) =>
            LET P == Pushed(n)
                m == Len(calls) - n
            IN  /\ \A j \in 1..m :
                    calls[n + j].window =
                        IF j <= Len(P) THEN Some(P[Len(P) + 1 - j]) ELSE None
                /\ views[selected_tab] =
                        IF m >= Len(P) THEN <<>> ELSE SubSeq(P, 1, Len(P) - m)
    /\ \A i \in 1..Len(calls) :
        (calls[i].op = "pop" /\ calls[i].before = <<>>) =>
            calls[i].window = None /\ calls[i].after = <<>>
    /\ ~panicked

\* Two different windows pushed, popped in reverse order, the page popped
\* after them, and one more pop on the empty stack
C13_Witness ==
    /\ Len(calls) = 6
    /\ PushesThenPops(2)
    /\ calls[1].window # calls[2].window
    /\ calls[3].window = calls[2].window
    /\ calls[4].window = calls[1].window
    /\ calls[6].before = <<>>
    /\ calls[6].window = None
    /\ views[selected_tab] = <<>>

\* A step of Ui::handle_event on a key that reaches the forwarding code
KeyForwarded(o) ==
    /\ o # None
    /\ o[1].event.type = "Key"
    /\ ReachesForwarding(o[1].event, debug_assertions)

\* C14: a key is given to exactly one window, the last pushed on the stack
\* of the selected tab; the layers under it and the stacks of the other
\* tabs are not touched
C14_KeyGoesToTopLayerOnly ==
    [][(KeyForwarded(last') /\ views[selected_tab] # <<>>) =>
        LET o == last'[1]
            stack == views[selected_tab]
        IN  /\ o.keyed = <<Len(stack)>>
            /\ o.handled # None
            /\ \A i \in 1..(Len(stack) - 1) : views'[selected_tab][i] = stack[i]
            /\ \A t \in UiTabs \ {selected_tab} : views'[t] = views[t]]_vars

\* A key was given to a dialog lying over its page, and the dialog moved
\* its focus while the page stayed as it was
C14_Witness ==
    /\ KeyForwarded(last)
    /\ last[1].depth = 2
    /\ last[1].keyed = <<2>>
    /\ last[1].handled[1].window # last[1].top[1]
    /\ Len(views[last[1].tab]) = 2

\* A step of Ui::handle_event on a tick
Ticked(o) == o # None /\ o[1].event = Tick

\* C15: while the stack of the selected tab is empty, a draw renders no
\* layer, a key is given to no window and yields no action, a tick is
\* delivered to no layer, and none of the three fails
C15_EmptyStackIsHarmless ==
    [][views[selected_tab] = <<>> =>
        /\ frame' # None => frame'[1].layers = <<>>
        /\ KeyForwarded(last') =>
              /\ last'[1].keyed = <<>>
              /\ last'[1].handled = None
              /\ last'[1].result = None
              /\ action_tx' = action_tx
              /\ views' = views
        /\ Ticked(last') =>
              /\ last'[1].ticked = <<>>
              /\ last'[1].answers = <<>>
              /\ views' = views
        /\ (frame' # None \/ KeyForwarded(last') \/ Ticked(last')) =>
              panicked' = panicked]_vars

\* A key was handled while the stack of the selected tab was empty
C15_Witness ==
    /\ KeyForwarded(last)
    /\ last[1].depth = 0
    /\ last[1].handled = None
    /\ views[selected_tab] = <<>>
    /\ ~panicked

\* C16: a frame renders the layers of the selected tab from the bottom to
\* the top, each once, and renders as active the topmost layer and no
\* other: exactly one layer whenever the stack is not empty
C16_FrameRendersBottomUpTopActive ==
    frame # None =>
        LET f == frame[1]
            stack == views[selected_tab]
            active == { i \in 1..Len(f.layers) : f.layers[i].focused }
        IN  /\ f.tab = selected_tab
            /\ Len(f.layers) = Len(stack)
            /\ \A i \in 1..Len(stack) :
                  f.layers[i].layer = i /\ f.layers[i].window = stack[i]
            /\ stack # <<>> => active = { Len(stack) }
            /\ ~f.status_bar.focused

\* A frame of a page with a dialog over it: the page first and inactive,
\* the dialog second and active
C16_Witness ==
    /\ frame # None
    /\ Len(frame[1].layers) = 2
    /\ frame[1].layers[1].window.kind = "page"
    /\ ~frame[1].layers[1].focused
    /\ frame[1].layers[2].window.kind = "dialog"
    /\ frame[1].layers[2].focused

\* C17: every tab has its own stack.  Whatever is done while a tab is
\* selected (a key, a tick, a push by show_ip_dialog, a pop) leaves the
\* stacks of the other tabs as they were, and a change of the selected tab
\* changes no stack: the tab left keeps what its key handler made of it,
\* the tab entered keeps its layers
C17_TabsOwnIndependentStacks ==
    [][/\ \A t \in UiTabs \ {selected_tab} : views'[t] = views[t]
       /\ selected_tab' # selected_tab =>
            /\ views'[selected_tab'] = views[selected_tab']
            /\ last' # None
            /\ Len(views'[selected_tab]) = last'[1].depth - last'[1].pops
            /\ \A i \in 1..Len(views'[selected_tab]) :
                  views'[selected_tab][i] =
                      IF last'[1].keyed = <<i>> THEN last'[1].handled[1].window
                      ELSE views[selected_tab][i]]_vars

\* A dialog was pushed while the second tab was selected and the first tab
\* still has its page alone
C17_Witness ==
    /\ selected_tab = 1
    /\ Len(views[1]) = 2
    /\ views[1][2].kind = "dialog"
    /\ \A t \in UiTabs \ {1} : views[t] = <<Page(t)>>

(***************************************************************************)
(* The selected tab under UiTabs::previous and UiTabs::next alone; calls   *)
(* records every call with the tab before and after it.                    *)
(***************************************************************************)
TabPrevious ==
    /\ Len(calls) < MaxCalls
    /\ selected_tab' = previous(selected_tab)
    /\ calls' = Append(calls, [op |-> "previous", from |-> selected_tab,
                               to |-> selected_tab'])
    /\ UNCHANGED <<modelVars, views, action_tx, last, debug_assertions,
                   panicked, focus, process, turn, modal>>

TabNext ==
    /\ Len(calls) < MaxCalls
    /\ selected_tab' = next(selected_tab)
    /\ calls' = Append(calls, [op |-> "next", from |-> selected_tab,
                               to |-> selected_tab'])
    /\ UNCHANGED <<modelVars, views, action_tx, last, debug_assertions,
                   panicked, focus, process, turn, modal>>

NextTabs ==
    \/ TabPrevious
    \/ TabNext

SpecTabs == Init /\ [][NextTabs]_vars

\* The tab order the claim states, and the position of a tab name in it
C18_Order == <<"Summary", "Home", "Network", "Applications", "Dmesg">>
C18_Position(name) == CHOOSE k \in 1..Len(C18_Order) : C18_Order[k] = name

\* C18: previous() and next() clamp and never wrap.  In the order Summary,
\* Home, Network, Applications, Dmesg, previous() of the first tab is the
\* first tab and of any other tab the one before it; next() of the last
\* tab is the last tab and of any other tab the one after it
C18_TabsClampAtBothEnds ==
    /\ Len(TabNames) = Len(C18_Order)
    /\ \A i \in 1..Len(calls) :
        LET from == C18_Position(TabNames[calls[i].from + 1])
            to == C18_Position(TabNames[calls[i].to + 1])
        IN  /\ calls[i].op = "previous" =>
                  to = (IF from = 1 THEN 1 ELSE from - 1)
            /\ calls[i].op = "next" =>
                  to = (IF from = Len(C18_Order) THEN Len(C18_Order) ELSE from + 1)

\* previous() was called on the first tab, then next() on every tab up to
\* and on the last one
C18_Witness ==
    /\ Len(calls) = 6
    /\ calls[1] = [op |-> "previous", from |-> 0, to |-> 0]
    /\ \A i \in 2..6 : calls[i].op = "next"
    /\ calls[6] = [op |-> "next", from |-> TabCount - 1, to |-> TabCount - 1]
    /\ TabNames[selected_tab + 1] = "Dmesg"

(***************************************************************************)
(* The Ui in a build without debug assertions: cfg!(debug_assertions) is   *)
(* false, so the Ctrl+a arm never matches and the key is forwarded.        *)
(***************************************************************************)
InitRelease ==
    /\ model = DefaultMonitorModel
    /\ borrow = 0
    /\ writer = None
    /\ committed = DefaultMonitorModel
    /\ frame = None
    /\ arrived = [t \in Channels |-> <<>>]
    /\ applied = [t \in Channels |-> 0]
    /\ views = [t \in UiTabs |-> <<Page(t)>>]
    /\ selected_tab = 0
    /\ action_tx = <<>>
    /\ last = None
    /\ debug_assertions = FALSE
    /\ panicked = FALSE
    /\ focus = [ids |-> <<>>, cursor |-> None]
    /\ process = [phase |-> "running", raw_mode |-> TRUE, cancelled |-> FALSE,
                 exit |-> None]
    /\ turn = FreeTurn
    /\ modal = [dialog |-> IpDialog(1), w_has_focus |-> FALSE]
    /\ calls = <<>>

NextUiRelease ==
    \/ HandleEventCtrlE
    \/ HandleEventCtrlR
    \/ HandleEventCtrlP
    \/ HandleEventKey
    \/ HandleEventTick
    \/ HandleEventOther
    \/ ShowIpDialog
    \/ Receive
    \/ Draw

SpecUiRelease == InitRelease /\ [][NextUiRelease]_vars

\* The keys of the global shortcuts: quit, redraw, pop, crash
IsShortcut(key) ==
    \/ IsCtrlChar(key, "Char_e")
    \/ IsCtrlChar(key, "Char_r")
    \/ IsCtrlChar(key, "Char_p")
    \/ IsCtrlChar(key, "Char_a")

\* C19: the global shortcuts are matched before the key is forwarded to a
\* layer and take effect only in debug builds.  In a debug build a
\* shortcut key is given to no layer; in a build without debug assertions
\* a shortcut key queues nothing, pops no layer and does not crash
C19_ShortcutsOnlyInDebugBuilds ==
    [][(last' # None /\ last'[1].event.type = "Key"
            /\ IsShortcut(last'[1].event)) =>
        /\ debug_assertions => last'[1].keyed = <<>>
        /\ ~debug_assertions =>
              /\ action_tx' = action_tx
              /\ last'[1].keyed = <<>> => views' = views
              /\ panicked' = panicked]_vars

(***************************************************************************)
(* FocusTracker: the ids of the focusable children in registration order   *)
(* and a cursor, None or Some(position).  Each operation yields the set of *)
(* its possible outcomes, an outcome being the tracker after the call and  *)
(* the value returned.  Where focus_prev starts from with no cursor is not *)
(* fixed: the first and the last id are both allowed.                      *)
(***************************************************************************)
FocusIds == <<"a", "b", "c", "d">>

FocusOutcome(f, cursor) ==
    [focus |-> [f EXCEPT !.cursor = cursor],
     result |-> IF cursor = None THEN None ELSE Some(f.ids[cursor[1]])]

focus_next(f) ==
    IF f.ids = <<>> THEN { FocusOutcome(f, None) }
    ELSE IF f.cursor = None THEN { FocusOutcome(f, Some(1)) }
    ELSE { FocusOutcome(f, Some((f.cursor[1] % Len(f.ids)) + 1)) }

focus_prev(f) ==
    IF f.ids = <<>> THEN { FocusOutcome(f, None) }
    ELSE IF f.cursor = None
         THEN { FocusOutcome(f, Some(1)), FocusOutcome(f, Some(Len(f.ids))) }
    ELSE { FocusOutcome(f, Some(IF f.cursor[1] = 1 THEN Len(f.ids)
                                ELSE f.cursor[1] - 1)) }

get_focused_view(f) ==
    IF f.cursor = None THEN None ELSE Some(f.ids[f.cursor[1]])

\* impl IFocusTracker for Dialog: every call is passed on to self.focus
DialogFocusNextBackwards(f) == focus_prev(f)
DialogFocusNext(f) == focus_next(f)
DialogFocusPrev(f) == focus_prev(f)
get_focused_view_name_or_first(f) ==
    IF get_focused_view(f) = None THEN Some(FocusIds[1]) ELSE get_focused_view(f)
get_focused_view_name(f) == get_focused_view(f)

\* impl IFocusTracker for HomePage: a page without focusable children
HomePageFocusNext == None
HomePageFocusPrev == None
HomePageGetFocusedViewName == None

\* A child is registered, before the tracker is used
AddFocusId ==
    /\ calls = <<>>
    /\ Len(focus.ids) < MaxIds
    /\ focus' = [focus EXCEPT !.ids = Append(@, FocusIds[Len(@) + 1])]
    /\ UNCHANGED <<modelVars, uiVars, process, turn, modal, calls>>

FocusCall(op, outcomes) ==
    /\ Len(calls) < MaxCalls
    /\ \E out \in outcomes :
        /\ focus' = out.focus
        /\ calls' = Append(calls, [op |-> op, from |-> focus.cursor,
                                   result |-> out.result,
                                   seen |-> get_focused_view_name(out.focus)])
    /\ UNCHANGED <<modelVars, uiVars, process, turn, modal>>

FocusNextCall == FocusCall("focus_next", DialogFocusNext(focus))
FocusPrevCall == FocusCall("focus_prev", DialogFocusPrev(focus))

\* A call on the home page, the window that registers no id
HomePageFocusCall ==
    /\ Len(calls) < MaxCalls
    /\ focus.ids = <<>>
    /\ \E c \in { [op |-> "HomePage::focus_next", result |-> HomePageFocusNext],
                   [op |-> "HomePage::focus_prev", result |-> HomePageFocusPrev] } :
        calls' = Append(calls, [op |-> c.op, from |-> focus.cursor,
                                result |-> c.result,
                                seen |-> HomePageGetFocusedViewName])
    /\ UNCHANGED <<modelVars, uiVars, focus, process, turn, modal>>

NextFocus ==
    \/ AddFocusId
    \/ FocusNextCall
    \/ FocusPrevCall
    \/ HomePageFocusCall

SpecFocus == Init /\ [][NextFocus]_vars

\* The calls k..l are all calls of op
AllCalls(op, k, l) == \A i \in k..l : calls[i].op = op

\* C20: with the ids a, b, c registered in this order, repeated focus_next
\* returns a, b, c, a, ... and, from a, repeated focus_prev returns c, b,
\* a, ...; with n ids registered, focus_next moves to the id after the
\* current one and to the first after the last, focus_prev to the id
\* before it and to the last after the first, n focus_next calls in a row
\* come back to the id they started from, and get_focused_view reports the
\* id the last call returned
C20_FocusCyclesInRegistrationOrder ==
    LET ids == focus.ids
        n == Len(ids)
        abc == <<"a", "b", "c">>
    IN  /\ \A i \in 1..Len(calls) : calls[i].seen = calls[i].result
        /\ calls # <<>> => get_focused_view_name(focus) = calls[Len(calls)].result
        /\ n > 0 =>
            /\ \A i \in 1..Len(calls) :
                LET c == calls[i]
                IN  /\ (c.op = "focus_next" /\ c.from = None) =>
                          c.result = Some(ids[1])
                    /\ (c.op = "focus_next" /\ c.from # None) =>
                          c.result = Some(ids[IF c.from[1] = n THEN 1
                                              ELSE c.from[1] + 1])
                    /\ (c.op = "focus_prev" /\ c.from # None) =>
                          c.result = Some(ids[IF c.from[1] = 1 THEN n
                                              ELSE c.from[1] - 1])
            /\ \A i \in 1..Len(calls) :
                (i + n - 1 <= Len(calls) /\ AllCalls("focus_next", i, i + n - 1)
                    /\ calls[i].from # None) =>
                    calls[i + n - 1].result = Some(ids[calls[i].from[1]])
        /\ ids = abc =>
            /\ \A i \in 1..Len(calls) :
                AllCalls("focus_next", 1, i) =>
                    calls[i].result = Some(abc[((i - 1) % 3) + 1])
            /\ \A i \in 2..Len(calls) :
                (calls[1].op = "focus_next" /\ AllCalls("focus_prev", 2, i)) =>
                    calls[i].result = Some(<<"c", "b", "a">>[((i - 2) % 3) + 1])

\* With a, b, c registered: four focus_next calls returned a, b, c, a and
\* two focus_prev calls after them returned c, b
C20_Witness ==
    /\ focus.ids = <<"a", "b", "c">>
    /\ Len(calls) = 6
    /\ AllCalls("focus_next", 1, 4)
    /\ AllCalls("focus_prev", 5, 6)
    /\ [i \in 1..6 |-> calls[i].result[1]] = <<"a", "b", "c", "a", "c", "b">>
    /\ get_focused_view_name(focus) = Some("b")

\* C21: with no id registered, focus_next, focus_prev and get_focused_view
\* return None after any sequence of such calls, on a dialog and on the
\* home page alike; the tracker stays empty with no cursor and nothing
\* fails
C21_EmptyTrackerAlwaysNone ==
    focus.ids = <<>> =>
        /\ \A i \in 1..Len(calls) :
              /\ calls[i].result = None
              /\ calls[i].seen = None
              /\ calls[i].from = None
        /\ focus = [ids |-> <<>>, cursor |-> None]
        /\ get_focused_view_name(focus) = None
        /\ ~panicked

\* Calls of both directions were made on an empty dialog tracker and on the
\* home page
C21_Witness ==
    /\ focus.ids = <<>>
    /\ Len(calls) = 4
    /\ calls[1].op = "focus_next"
    /\ calls[2].op = "focus_prev"
    /\ calls[3].op = "HomePage::focus_next"
    /\ calls[4].op = "HomePage::focus_prev"
    /\ calls[4].result = None

\* The entries of an app map that belong to an instance id
EntriesOf(apps, id) == { k \in DOMAIN apps : apps[k].uuid = id }

\* C22: after any sequence of updates the app map holds at most one entry
\* per instance id, and the app-status upsert is idempotent: applying the
\* same app-status update a second time gives the Model the first
\* application gave, with exactly one entry for the id of the message
C22_AppUpsertIdempotentOneEntryPerId ==
    /\ \A id \in AppIds : Cardinality(EntriesOf(model.apps, id)) <= 1
    /\ \A x \in AppInstanceStatusMsgs :
        LET once == update_app_status(model, x)
            twice == update_app_status(once, x)
        IN  /\ twice = once
            /\ Cardinality(EntriesOf(once.apps, x.uuid)) = 1
            /\ \A k \in EntriesOf(twice.apps, x.uuid) :
                  twice.apps[k] = once.apps[k]

\* Both instances are in the map, one of them in an error state
C22_Witness ==
    /\ \A id \in AppIds : Cardinality(EntriesOf(model.apps, id)) = 1
    /\ \E k \in DOMAIN model.apps : model.apps[k].state.tag = "Error"
    /\ \E k \in DOMAIN model.apps : model.apps[k].state.tag = "Normal"

\* C23: in every reachable Model, whatever the network-status message, a
\* network-status update changes the interface list only: the app
\* map, the vault status, the node status with its server, onboarding
\* state and app summary, and the downloader status are as before
C23_NetworkUpdateTouchesNetworkOnly ==
    \A x \in DeviceNetworkStatusMsgs :
        LET after == update_network_status(model, x)
        IN  /\ after.apps = model.apps
            /\ after.vault_status = model.vault_status
            /\ after.node_status.server = model.node_status.server
            /\ after.node_status.onboarding_status =
                   model.node_status.onboarding_status
            /\ after.node_status.app_summary = model.node_status.app_summary
            /\ after.downloader = model.downloader
            /\ DOMAIN after = DOMAIN model

\* Interfaces are listed while every other fragment has left its default
C23_Witness ==
    /\ model.network # <<>>
    /\ model.apps # EmptyMap
    /\ model.vault_status.tag # "Unknown"
    /\ model.node_status.onboarding_status.tag # "Unknown"
    /\ model.node_status.app_summary # DefaultAppInstanceSummary
    /\ model.downloader # None

\* The instance ids of an app list, and the last element of the list with
\* a given id
ListIds(apps_list) == { apps_list.apps[i].uuid : i \in 1..Len(apps_list.apps) }
LastOf(apps_list, id) ==
    LET i == CHOOSE j \in 1..Len(apps_list.apps) :
                 /\ apps_list.apps[j].uuid = id
                 /\ \A k \in (j + 1)..Len(apps_list.apps) :
                        apps_list.apps[k].uuid # id
    IN  apps_list.apps[i]

\* The entry an app-status message stands for: Error(state, reason) when
\* its error text is not empty, Normal(state) when it is, with the name,
\* id and version of the message
EntryFor(x) ==
    [name |-> x.display_name, uuid |-> x.uuid, version |-> x.version,
     state |-> IF x.error = <<>> THEN [tag |-> "Normal", state |-> x.state]
               ELSE [tag |-> "Error", state |-> x.state, reason |-> x.error]]

\* C24: an app-list update replaces the app map wholesale.  Whatever the
\* map held, afterwards its keys are exactly the instance ids of the list,
\* and the entry of each id is the one an app-status update with the list
\* element of that id gives
C24_AppListReplacesMap ==
    \A x \in AppsListMsgs :
        LET after == update_app_list(model, x)
        IN  /\ DOMAIN after.apps = ListIds(x)
            /\ \A id \in ListIds(x) :
                  after.apps[id] =
                      update_app_status(model, LastOf(x, id)).apps[id]

\* A Model with an entry that a list without its id removes
C24_Witness ==
    \E x \in AppsListMsgs :
        /\ x.apps # <<>>
        /\ DOMAIN model.apps \ ListIds(x) # {}
        /\ ListIds(x) \ DOMAIN model.apps # {}
        /\ DOMAIN update_app_list(model, x).apps = ListIds(x)

\* C25: an app-status update puts under the instance id of the message an
\* entry whose state is Error(state, reason) when the error text of the
\* message is not empty and Normal(state) when it is empty, with the name
\* and version of the message, whether or not the id had an entry; the
\* entries of the other ids are as before
C25_AppStatusUpsertsDerivedEntry ==
    \A x \in AppInstanceStatusMsgs :
        LET after == update_app_status(model, x)
        IN  /\ DOMAIN after.apps = DOMAIN model.apps \cup { x.uuid }
            /\ after.apps[x.uuid] = EntryFor(x)
            /\ \A id \in DOMAIN model.apps \ { x.uuid } :
                  after.apps[id] = model.apps[id]

\* A Model where an instance is running and another has an entry, and a
\* message reports the first in error
C25_Witness ==
    \E x \in AppInstanceStatusMsgs :
        /\ x.error # <<>>
        /\ x.uuid \in DOMAIN model.apps
        /\ model.apps[x.uuid].state.tag = "Normal"
        /\ DOMAIN model.apps \ { x.uuid } # {}
        /\ update_app_status(model, x).apps[x.uuid].state.tag = "Error"

\* The variants of OnboardingStatus
OnboardingVariants == { "Unknown", "Onboarding", "Onboarded", "Error" }

\* C26: a node-status update sets the onboarding state to Onboarded(X) for
\* onboarded = true with the node id X, to Error("Node UUID is missing")
\* for onboarded = true with no node id, and to Onboarding for onboarded =
\* false with or without a node id; the state is one of the variants
C26_NodeStatusOnboardingTable ==
    \A x \in EveNodeStatusMsgs :
        LET s == update_node_status(model, x).node_status.onboarding_status
        IN  /\ s.tag \in OnboardingVariants
            /\ (x.onboarded /\ x.node_uuid # None) =>
                  s = [tag |-> "Onboarded", uuid |-> x.node_uuid[1]]
            /\ (x.onboarded /\ x.node_uuid = None) =>
                  s = [tag |-> "Error", reason |-> "Node UUID is missing"]
            /\ ~x.onboarded => s = [tag |-> "Onboarding"]

\* An onboarded node is shown, and a message with its id and onboarded =
\* false turns it back to Onboarding
C26_Witness ==
    /\ model.node_status.onboarding_status.tag = "Onboarded"
    /\ \E x \in EveNodeStatusMsgs :
        /\ ~x.onboarded
        /\ x.node_uuid # None
        /\ update_node_status(model, x).node_status.onboarding_status =
               [tag |-> "Onboarding"]

\* C27: a vault-status update maps, with tpmUsed = (the PCR status of the
\* message is Enabled), Unknown to Unknown, Disabled to
\* EncryptionDisabled(error, tpmUsed), Enabled to Unlocked(tpmUsed), and
\* Error to Locked(error, pcrs) with pcrs the list of mismatching PCRs of
\* the message when the error text contains "Vault key unavailable" and
\* None when it does not
C27_VaultStatusTable ==
    \A x \in EveVaultStatusMsgs :
        LET v == update_vault_status(model, x).vault_status
            tpmUsed == x.pcr_status = "PcrEnabled"
            err == [error |-> x.error]
        IN  /\ x.status = "DataSecAtRestUnknown" => v = [tag |-> "Unknown"]
            /\ x.status = "DataSecAtRestDisabled" =>
                  v = [tag |-> "EncriptionDisabled", reason |-> err,
                       tpm_used |-> tpmUsed]
            /\ x.status = "DataSecAtRestEnabled" =>
                  v = [tag |-> "Unlocked", tpm_used |-> tpmUsed]
            /\ x.status = "DataSecAtRestError" =>
                  v = [tag |-> "Locked", reason |-> err,
                       pcrs |-> IF Contains(x.error, <<"Vault", "key", "unavailable">>)
                                THEN x.mismatching_pcrs ELSE None]

\* The vault is shown locked with an error that does not name the key and
\* no PCR list, although the message had one
C27_Witness ==
    /\ model.vault_status.tag = "Locked"
    /\ model.vault_status.pcrs = None
    /\ \E x \in EveVaultStatusMsgs :
        /\ x.mismatching_pcrs # None
        /\ update_vault_status(model, x).vault_status = model.vault_status

\* C28: a network-status update replaces the interface list with one
\* entry per port of the message, in the order of the ports, each with the
\* name, management flag, addresses and gateways of its port; a message
\* without a port list empties the interface list
C28_NetworkUpdateOneEntryPerPort ==
    \A x \in DeviceNetworkStatusMsgs :
        LET network == update_network_status(model, x).network
        IN  /\ x.ports = None => network = <<>>
            /\ x.ports # None =>
                  /\ Len(network) = Len(x.ports[1])
                  /\ \A i \in 1..Len(network) :
                      LET port == x.ports[1][i]
                      IN  /\ network[i].name = port.if_name
                          /\ network[i].is_mngmt = port.is_mgmt
                          /\ Len(network[i].addresses) = Len(port.addr_info_list)
                          /\ \A a \in 1..Len(port.addr_info_list) :
                                network[i].addresses[a] = port.addr_info_list[a].addr
                          /\ network[i].default_gateway = port.default_routers

\* Two different interfaces are listed, and a message without a port list
\* empties the list
C28_Witness ==
    /\ Len(model.network) = 2
    /\ model.network[1].name # model.network[2].name
    /\ update_network_status(model, [ports |-> None]).network = <<>>

(***************************************************************************)
(* SpecDecode: the ingestion task of the network topic.  It receives the   *)
(* text of a message, decodes it and, when that succeeds, calls the        *)
(* reducer; a message that fails to decode is logged and discarded.  A     *)
(* panic while decoding ends the task.  calls records every message        *)
(* received, the outcome of decoding it and the Model before and after.    *)
(***************************************************************************)
GoodMac == Some(<<"U", "l", "Q", "A", "E", "j", "R", "X">>)
ShortMac == Some(<<"U", "l", "Q", "A", "E", "g", "=", "=">>)
GoodSubnet ==
    Some([IP |-> "192.168.2.0",
          Mask |-> Some(<<"/", "/", "/", "/", "A", "A", "=", "=">>)])
ZeroSubnet == Some([IP |-> "", Mask |-> None])

RawPort(mac_addr, configured_subnet) ==
    [if_name |-> "eth0", is_mgmt |-> TRUE,
     addr_info_list |-> << [addr |-> "192.168.2.10"] >>,
     default_routers |-> Some(<< "192.168.2.2" >>),
     mac_addr |-> mac_addr, configured_subnet |-> configured_subnet]

\* Messages that decode, and messages that must not
WellFormedRaw ==
    { [ports |-> None], [ports |-> Some(<< RawPort(GoodMac, GoodSubnet) >>)] }
MalformedRaw ==
    { [ports |-> Some(<< RawPort(ShortMac, GoodSubnet) >>)],
      [ports |-> Some(<< RawPort(GoodMac, ZeroSubnet) >>)],
      [ports |-> Some(<< RawPort(ShortMac, ZeroSubnet) >>)] }

IngestNetworkStatus ==
    /\ ~panicked
    /\ Len(calls) < MaxCalls
    /\ \E raw \in WellFormedRaw \cup MalformedRaw :
       \E out \in DeviceNetworkStatusDeserialize(raw) :
        /\ model' = IF out.tag = "Ok" THEN update_network_status(model, out.value)
                     ELSE model
        /\ committed' = model'
        /\ panicked' = (out.tag = "Panic")
        /\ calls' = Append(calls, [raw |-> raw, outcome |-> out.tag,
                                   before |-> model, after |-> model'])
    /\ UNCHANGED <<borrow, writer, frame, arrived, applied>>
    /\ UNCHANGED <<views, selected_tab, action_tx, last, debug_assertions,
                   focus, process, turn, modal>>

NextDecode == IngestNetworkStatus

SpecDecode == Init /\ [][NextDecode]_vars

\* C29: a message that fails to decode reaches no reducer: the whole
\* Model is after it what it was before, the process goes on, and the
\* well-formed messages of the topic that follow are applied
C29_DecodeFailureKeepsLastKnownGood ==
    /\ ~panicked
    /\ \A i \in 1..Len(calls) :
        /\ calls[i].raw \in MalformedRaw =>
              calls[i].outcome = "Err" /\ calls[i].after = calls[i].before
        /\ calls[i].raw \in WellFormedRaw =>
              /\ calls[i].outcome = "Ok"
              /\ Len(calls[i].after.network) =
                     (IF calls[i].raw.ports = None THEN 0 ELSE 1)

(***************************************************************************)
(* The process around the loop.  The terminal is put in raw mode before    *)
(* Ui::new takes it (src/ui/ui.rs:72) and the Ui owns it from then on      *)
(* (src/ui/ui.rs:46); the loop is left by a Quit from the bus, by an error *)
(* it returns, or by a panic that unwinds through it, and the scope that   *)
(* holds the terminal is left on each of these paths.                      *)
(***************************************************************************)
\* The loop returns an error
LoopError ==
    /\ ~panicked
    /\ process.phase = "running"
    /\ process' = [process EXCEPT !.phase = "stopping", !.exit = Some("error")]
    /\ last' = None
    /\ frame' = None
    /\ UNCHANGED <<views, selected_tab, action_tx, debug_assertions, panicked>>
    /\ UNCHANGED <<storeVars, focus, turn, modal, calls>>

\* The scope that holds the terminal is left, by return or by unwinding:
\* raw mode is switched off and the process exits
RestoreTerminal ==
    /\ process.phase # "exited"
    /\ panicked \/ process.phase = "stopping"
    /\ process' = [process EXCEPT
                       !.phase = "exited", !.raw_mode = FALSE,
                       !.exit = IF panicked THEN Some("panic") ELSE @]
    /\ frame' = None
    /\ UNCHANGED <<views, selected_tab, action_tx, last, debug_assertions,
                   panicked>>
    /\ UNCHANGED <<storeVars, focus, turn, modal, calls>>

NextApp ==
    \/ HandleEventCtrlE
    \/ HandleEventCtrlR
    \/ HandleEventCtrlP
    \/ HandleEventCtrlA
    \/ HandleEventKey
    \/ HandleEventTick
    \/ HandleEventOther
    \/ ShowIpDialog
    \/ Receive
    \/ Draw
    \/ LoopError
    \/ RestoreTerminal

SpecApp == Init /\ [][NextApp]_vars

\* C30: once raw mode has been acquired the terminal is restored on every
\* exit path of the loop (a Quit, an error returned from the loop, a panic
\* such as the manual panic shortcut): a process that has exited has left
\* raw mode, every state in which the loop has been left by one of the
\* three paths can still restore the terminal, and an execution that can
\* take no further step has exited
C30_TerminalRestoredOnEveryExit ==
    /\ process.phase = "exited" =>
          ~process.raw_mode /\ process.exit \in {Some("quit"), Some("error"), Some("panic")}
    /\ (process.phase # "exited" /\ (panicked \/ process.phase = "stopping")) =>
          ENABLED RestoreTerminal
    /\ ~(ENABLED NextApp) => process.phase = "exited"

\* The manual panic shortcut crashed the loop and the terminal was restored
C30_Witness ==
    /\ panicked
    /\ last # None /\ IsCtrlChar(last[1].event, "Char_a")
    /\ process.phase = "exited" /\ ~process.raw_mode
    /\ process.exit = Some("panic")

(***************************************************************************)
(* The loop under fair scheduling: an action on the bus is eventually      *)
(* received, and a scope that is being left is eventually left.            *)
(***************************************************************************)
SpecQuit == Init /\ [][NextApp]_vars /\ WF_vars(Receive) /\ WF_vars(RestoreTerminal)

\* A Quit is waiting on the bus
QuitQueued == \E i \in 1..Len(action_tx) : action_tx[i].action = Quit
\* The loop has received a Quit
QuitReceived == process.exit = Some("quit")

InitLoop ==
    /\ model = DefaultMonitorModel
    /\ borrow = 0
    /\ writer = None
    /\ committed = DefaultMonitorModel
    /\ frame = None
    /\ arrived = [t \in Channels |-> <<>>]
    /\ applied = [t \in Channels |-> 0]
    /\ views = [t \in UiTabs |-> <<Page(t)>>]
    /\ selected_tab = 0
    /\ action_tx = <<>>
    /\ last = None
    /\ debug_assertions = TRUE
    /\ panicked = FALSE
    /\ focus = [ids |-> <<>>, cursor |-> None]
    /\ process = [phase |-> "running", raw_mode |-> TRUE, cancelled |-> FALSE,
                 exit |-> None]
    /\ turn = [FreeTurn EXCEPT !.pc = "event"]
    /\ modal = [dialog |-> IpDialog(1), w_has_focus |-> FALSE]
    /\ calls = <<>>

\* An ingestion task sends an action on the bus; the send never blocks
TaskSend ==
    /\ turn.pc # "free"
    /\ ~panicked
    /\ process.phase = "running"
    /\ Len(action_tx) < MaxBus
    /\ \E a \in { Redraw, AppAction } :
        action_tx' = Append(action_tx, NewAction("task", a))
    /\ turn' = IF turn.pc = "drain" THEN [turn EXCEPT !.late = @ + 1] ELSE turn
    /\ UNCHANGED <<views, selected_tab, last, debug_assertions, panicked>>
    /\ UNCHANGED <<storeVars, frame, focus, process, modal, calls>>

\* The drain begins after the event is handled: it is to take the actions
\* that are on the bus now
DrainBegin ==
    /\ turn.pc = "event"
    /\ last # None
    /\ ~panicked
    /\ turn' = [turn EXCEPT !.pc = "drain", !.snapshot = Len(action_tx),
                            !.budget = Len(action_tx), !.late = 0,
                            !.redraws = 0, !.draws = 0]
    /\ UNCHANGED <<views, selected_tab, action_tx, last, debug_assertions,
                   panicked>>
    /\ UNCHANGED <<storeVars, frame, focus, process, modal, calls>>

\* The drain goes on until the bus is empty
DrainDoneWhenEmpty == action_tx = <<>>

\* The drain is over when the actions it was to take are taken
DrainDone == turn.budget = 0

\* The drain takes one action; a Redraw marks the iteration as owing a frame
DrainOne ==
    /\ turn.pc = "drain"
    /\ ~DrainDone
    /\ action_tx # <<>>
    /\ action_tx' = Tail(action_tx)
    /\ turn' = [turn EXCEPT
                   !.budget = @ - 1,
                   !.redraws = IF Head(action_tx).action = Redraw
                               THEN @ + 1 ELSE @]
    /\ UNCHANGED <<views, selected_tab, last, debug_assertions, panicked>>
    /\ UNCHANGED <<storeVars, frame, focus, process, modal, calls>>

\* One frame for each Redraw drained
CoalescePerRequest(redraws) == redraws

\* The frames drawn for the Redraw actions drained in an iteration
Coalesce(redraws) == IF redraws > 0 THEN 1 ELSE 0

\* The end of the iteration: the frame owed is drawn (Ui::draw) and the
\* loop goes back to its event step
LoopDraw ==
    /\ turn.pc = "drain"
    /\ DrainDone
    /\ CanBorrow(borrow)
    /\ LET n == Coalesce(turn.redraws)
       IN  /\ turn' = [turn EXCEPT !.pc = "event", !.draws = n,
                                   !.parity = (@ + n) % 2]
           /\ frame' = IF n > 0
                        THEN Some([seen |-> model, whole |-> committed,
                                   tab |-> selected_tab,
                                   layers |-> RenderPass(views[selected_tab]),
                                   status_bar |-> [focused |-> FALSE]])
                        ELSE frame
    /\ last' = None
    /\ UNCHANGED <<views, selected_tab, action_tx, debug_assertions, panicked>>
    /\ UNCHANGED <<storeVars, focus, process, modal, calls>>

\* The loop takes an event: the tick interval makes one arrive
TakeEvent ==
    \/ HandleEventCtrlR
    \/ HandleEventTick
    \/ HandleEventOther

NextLoop ==
    \/ HandleEventCtrlR
    \/ HandleEventTick
    \/ HandleEventOther
    \/ TaskSend
    \/ DrainBegin
    \/ DrainOne
    \/ LoopDraw

SpecLoop ==
    /\ InitLoop /\ [][NextLoop]_vars
    /\ WF_vars(TakeEvent) /\ WF_vars(DrainBegin)
    /\ WF_vars(DrainOne) /\ WF_vars(LoopDraw)

\* The step that ends the drain and goes back to the event step
DrainEnds == turn.pc = "drain" /\ turn'.pc = "event"

\* C32: the drain of an iteration takes exactly the actions that were on
\* the bus when it began (those generated up to then) and none sent later:
\* while it runs the bus holds what is left to take plus what was sent
\* since, every action taken counts down what is left, the iteration ends
\* when nothing is left with the later actions still queued, and however
\* the tasks keep sending the drain always ends and the loop goes on to its
\* next redraw step
C32_DrainTakesTheIterationsActions ==
    /\ [](turn.pc = "drain" =>
            /\ turn.budget \in 0..turn.snapshot
            /\ Len(action_tx) = turn.budget + turn.late)
    /\ [][(Len(action_tx') < Len(action_tx)) =>
            /\ turn.pc = "drain" /\ turn.budget > 0
            /\ turn'.budget = turn.budget - 1
            /\ action_tx' = Tail(action_tx)]_vars
    /\ [][DrainEnds =>
            /\ turn.budget = 0
            /\ action_tx' = action_tx
            /\ Len(action_tx') = turn.late]_vars
    /\ (turn.pc = "drain") ~> (turn.pc = "event" /\ last = None)

\* An iteration drained two actions while a task sent a third, which is
\* left for the next iteration
C32_Witness ==
    /\ turn.pc = "event" /\ last = None
    /\ turn.snapshot >= 2
    /\ turn.late >= 1
    /\ Len(action_tx) = turn.late
    /\ action_tx[1].source = "task"

\* A Redraw is waiting on the bus
RedrawQueued == \E i \in 1..Len(action_tx) : action_tx[i].action = Redraw

\* C33: redraw requests coalesce and none is lost: every Redraw taken from
\* the bus is counted for its iteration, an iteration that took one or more
\* of them draws exactly one frame and one that took none draws none, a
\* frame is drawn only at the end of an iteration, and under fair scheduling
\* a queued Redraw is always followed by a new frame
C33_RedrawsCoalesce ==
    /\ [][(Len(action_tx') < Len(action_tx)) =>
            turn'.redraws = turn.redraws +
                (IF Head(action_tx).action = Redraw THEN 1 ELSE 0)]_vars
    /\ [][DrainEnds =>
            /\ turn'.draws = (IF turn.redraws >= 1 THEN 1 ELSE 0)
            /\ turn.redraws >= 1 =>
                  frame' # None /\ turn'.parity = 1 - turn.parity
            /\ turn.redraws = 0 =>
                  frame' = frame /\ turn'.parity = turn.parity]_vars
    /\ [][turn'.parity # turn.parity => DrainEnds]_vars
    /\ \A b \in { 0, 1 } :
          (RedrawQueued /\ turn.parity = b) ~> (turn.parity = 1 - b)

\* An iteration took two Redraw actions from the bus and drew one frame
C33_Witness ==
    /\ turn.pc = "event" /\ last = None
    /\ turn.redraws >= 2
    /\ turn.draws = 1
    /\ frame # None

(***************************************************************************)
(* A Dialog taken by itself (src/ui/dialog.rs): the calls of its           *)
(* IFocusAcceptor, IFocusTracker and IEventHandler implementations, each   *)
(* recorded with what has_focus answers after it.  The inner window w is   *)
(* outside these files: set_focus and clear_focus raise and lower its flag.*)
(***************************************************************************)
\* has_focus answering with the flag of the inner window
DialogHasFocusOfInner(m) == m.w_has_focus

\* impl IFocusAcceptor for Dialog: has_focus, "dialog is always focused"
DialogHasFocus(m) == TRUE

\* The record of a call on the dialog
DialogCalled(op, m) == Append(calls, [op |-> op, has_focus |-> DialogHasFocus(m)])

\* Dialog::set_focus: self.w.set_focus()
DialogSetFocus ==
    /\ Len(calls) < MaxDialogCalls
    /\ modal' = [modal EXCEPT !.w_has_focus = TRUE]
    /\ calls' = DialogCalled("set_focus", modal')
    /\ UNCHANGED <<modelVars, uiVars, focus, process, turn>>

\* Dialog::clear_focus: self.w.clear_focus()
DialogClearFocus ==
    /\ Len(calls) < MaxDialogCalls
    /\ modal' = [modal EXCEPT !.w_has_focus = FALSE]
    /\ calls' = DialogCalled("clear_focus", modal')
    /\ UNCHANGED <<modelVars, uiVars, focus, process, turn>>

\* Dialog::focus_next
DialogFocusNextCall ==
    /\ Len(calls) < MaxDialogCalls
    /\ \E out \in DialogFocusNext(focus) : focus' = out.focus
    /\ calls' = DialogCalled("focus_next", modal)
    /\ UNCHANGED <<modelVars, uiVars, process, turn, modal>>

\* Dialog::focus_prev
DialogFocusPrevCall ==
    /\ Len(calls) < MaxDialogCalls
    /\ \E out \in DialogFocusPrev(focus) : focus' = out.focus
    /\ calls' = DialogCalled("focus_prev", modal)
    /\ UNCHANGED <<modelVars, uiVars, process, turn, modal>>

\* Dialog::handle_key_event
DialogKeyCall ==
    /\ Len(calls) < MaxDialogCalls
    /\ \E key \in KeySamples :
        \E r \in InnerAnswers(modal.dialog, key) :
            modal' = [modal EXCEPT
                         !.dialog = DialogHandleKeyEvent(@, key, r).window]
    /\ calls' = DialogCalled("handle_key_event", modal')
    /\ UNCHANGED <<modelVars, uiVars, focus, process, turn>>

NextDialog ==
    \/ AddFocusId
    \/ DialogSetFocus
    \/ DialogClearFocus
    \/ DialogFocusNextCall
    \/ DialogFocusPrevCall
    \/ DialogKeyCall

SpecDialog == Init /\ [][NextDialog]_vars

\* C34: a Dialog reports itself as focus-holding in every state: has_focus
\* is true at construction and after every sequence of set_focus,
\* clear_focus, focus_next, focus_prev and key events, whatever the focus
\* flag of its inner window and the cursor of its tracker are
C34_DialogAlwaysHasFocus ==
    /\ DialogHasFocus(modal)
    /\ \A i \in 1..Len(calls) : calls[i].has_focus

\* The dialog was given the focus, moved it among its children, handled a
\* key and had the focus cleared last: the inner window is unfocused
C34_Witness ==
    /\ Len(calls) = MaxDialogCalls
    /\ calls[Len(calls)].op = "clear_focus"
    /\ ~modal.w_has_focus
    /\ \E i, j, k \in 1..Len(calls) :
        /\ calls[i].op = "set_focus"
        /\ calls[j].op \in { "focus_next", "focus_prev" }
        /\ calls[k].op = "handle_key_event"
    /\ get_focused_view_name(focus) # None
    /\ DialogHasFocus(modal)

(***************************************************************************)
(* Dialog::do_layout and Dialog::render (src/ui/dialog.rs).  A Rect is a   *)
(* position and a size in cells.  centered_rect_fixed (tools.rs) is        *)
(* outside these files; Rect::inner and Layout::split are the terminal     *)
(* library's: split gives one rectangle per constraint, all of them within *)
(* the area it splits.                                                     *)
(***************************************************************************)
Rect(x, y, width, height) == [x |-> x, y |-> y, width |-> width, height |-> height]
ZeroRect == Rect(0, 0, 0, 0)
Least(a, b) == IF a < b THEN a ELSE b

\* A rectangle of the fixed size around the centre of r, whatever r holds
centered_rect_fixed_unclamped(width, height, r) ==
    Rect(r.x + (IF r.width > width THEN (r.width - width) \div 2 ELSE 0),
         r.y + (IF r.height > height THEN (r.height - height) \div 2 ELSE 0),
         width, height)

\* tools::centered_rect_fixed: the rectangle of the fixed size centred in
\* r, clamped to r
centered_rect_fixed(width, height, r) ==
    LET w == Least(width, r.width)
        h == Least(height, r.height)
    IN  Rect(r.x + (r.width - w) \div 2, r.y + (r.height - h) \div 2, w, h)

\* Rect::inner: the rectangle within the margin, or the zero rectangle
\* when the margin does not fit
RectInner(r, margin) ==
    IF r.width < 2 * margin \/ r.height < 2 * margin THEN ZeroRect
    ELSE Rect(r.x + margin, r.y + margin,
              r.width - 2 * margin, r.height - 2 * margin)

\* Layout::horizontal([Min(0), Length(len)]).split: the column of the given
\* length at the right, as far as it fits, and the rest at its left
SplitMinLength(area, len) ==
    LET bw == Least(len, area.width)
    IN  [content |-> Rect(area.x, area.y, area.width - bw, area.height),
         buttons |-> Rect(area.x + area.width - bw, area.y, bw, area.height)]

\* The heights n rectangles stacked from the top of a column may be given:
\* the length asked for when all fit, and any heights up to it that fit
\* when they do not
RECURSIVE StackedHeights(_, _, _)
StackedHeights(n, len, room) ==
    IF n = 0 THEN { <<>> }
    ELSE IF n * len <= room
         THEN { [i \in 1..n |-> len] }
         ELSE UNION { { <<h>> \o rest :
                          rest \in StackedHeights(n - 1, len, room - h) } :
                      h \in 0..Least(len, room) }

RECURSIVE SumTo(_, _)
SumTo(heights, i) == IF i = 0 THEN 0 ELSE heights[i] + SumTo(heights, i - 1)

\* Layout::vertical(vec![Length(len); n]).flex(Flex::Start).split
SplitStacked(area, n, len) ==
    { [i \in 1..n |-> Rect(area.x, area.y + SumTo(heights, i - 1),
                           area.width, heights[i])] :
        heights \in StackedHeights(n, len, area.height) }

\* The labels of the buttons and their lengths
ButtonNames == <<"Ok", "Cancel", "Apply">>
NameLen(name) ==
    CASE name = "Ok" -> 2 [] name = "Cancel" -> 6 [] name = "Apply" -> 5
      [] OTHER -> 0

RECURSIVE MaxButtonLen(_)
MaxButtonLen(buttons) ==
    IF buttons = <<>> THEN 0
    ELSE LET rest == MaxButtonLen(Tail(buttons))
             this == NameLen(Head(buttons)) + 2
         IN  IF this > rest THEN this ELSE rest

\* Dialog::do_layout: the layouts it may leave in self.layout, each a
\* function from the names "frame", "content" and the buttons to rectangles
do_layout(size, buttons, area) ==
    LET dialog_area == centered_rect_fixed(size[1], size[2], area)
        layout == SplitMinLength(RectInner(dialog_area, 1), MaxButtonLen(buttons))
        names == { "frame", "content" } \cup { buttons[i] : i \in 1..Len(buttons) }
    IN  { [name \in names |->
             CASE name = "content" -> layout.content
               [] \E i \in 1..Len(buttons) : buttons[i] = name ->
                    button_layout[CHOOSE i \in 1..Len(buttons) : buttons[i] = name]
               [] OTHER -> dialog_area] :
          button_layout \in SplitStacked(layout.buttons, Len(buttons), 3) }

\* A rectangle lies inside another: it has no cell outside it
Inside(r, outer) ==
    \/ r.width = 0 \/ r.height = 0
    \/ /\ outer.x <= r.x /\ r.x + r.width <= outer.x + outer.width
       /\ outer.y <= r.y /\ r.y + r.height <= outer.y + outer.height

\* Dialog::render: lay out, then draw the block in "frame", the buttons and
\* the content in their rectangles: every name drawn was laid out just
\* before.  A write to a cell outside the buffer may panic
DialogRender(size, buttons, area, buffer) ==
    UNION { LET outside == \E name \in DOMAIN l : ~Inside(l[name], buffer)
            IN  { [layout |-> l, outcome |-> o] :
                    o \in IF outside THEN { "ok", "panic" } ELSE { "ok" } } :
            l \in do_layout(size, buttons, area) }

\* The fixed sizes of the dialogs, the parent areas they are rendered in
\* (the body of the screen, below the tabs or alone), and the buffer the
\* parent area is part of
DialogSizes == { <<6, 5>>, <<12, 9>> }
ParentAreas ==
    { Rect(x, y, w, h) : x \in 0..1, y \in { 0, 3 },
                         w \in 0..MaxWidth, h \in 0..MaxHeight }
BufferOf(area) == Rect(0, 0, area.x + area.width, area.y + area.height)

\* One render of a dialog in a parent area
DialogRenderCall ==
    /\ calls = <<>>
    /\ \E size \in DialogSizes, n \in 0..MaxButtons, area \in ParentAreas :
        \E c \in DialogRender(size, SubSeq(ButtonNames, 1, n), area, BufferOf(area)) :
            calls' = <<[size |-> size, buttons |-> SubSeq(ButtonNames, 1, n),
                        area |-> area, layout |-> c.layout,
                        outcome |-> c.outcome]>>
    /\ UNCHANGED <<modelVars, uiVars, focus, process, turn, modal>>

NextLayout == DialogRenderCall

SpecLayout == Init /\ [][NextLayout]_vars

\* C35: the layout of a dialog degrades gracefully: for every parent area,
\* smaller than the fixed size of the dialog or of zero size included, and
\* for any number of buttons, render completes, every name it draws has a
\* rectangle, and the frame, the content and every button lie inside the
\* parent area
C35_LayoutStaysInsideParent ==
    \A i \in 1..Len(calls) :
        LET c == calls[i]
        IN  /\ c.outcome = "ok"
            /\ DOMAIN c.layout =
                  { "frame", "content" } \cup
                  { c.buttons[k] : k \in 1..Len(c.buttons) }
            /\ \A name \in DOMAIN c.layout : Inside(c.layout[name], c.area)

\* A dialog with two buttons was rendered in an area narrower and lower
\* than its fixed size: the frame fills the area and the second button
\* has no room left
C35_Witness ==
    /\ calls # <<>>
    /\ calls[1].outcome = "ok"
    /\ Len(calls[1].buttons) = 2
    /\ calls[1].area.width \in 1..(calls[1].size[1] - 1)
    /\ calls[1].area.height \in 1..(calls[1].size[2] - 1)
    /\ calls[1].layout["frame"] = calls[1].area
    /\ calls[1].layout["Cancel"].height < 3

(***************************************************************************)
(* The decoders of src/ipc/eve_types.rs taken by themselves.  The sender   *)
(* writes a hardware address as the base64 text of its bytes.              *)
(***************************************************************************)
\* The base64 text of a byte sequence, as the sender writes it
RECURSIVE Base64Encode(_)
Base64Encode(bytes) ==
    IF bytes = <<>> THEN <<>>
    ELSE LET k == Least(3, Len(bytes))
             b == [i \in 1..3 |-> IF i <= k THEN bytes[i] ELSE 0]
             n == b[1] * 65536 + b[2] * 256 + b[3]
             c == << Base64Chars[(n \div 262144) + 1],
                     Base64Chars[((n \div 4096) % 64) + 1],
                     Base64Chars[((n \div 64) % 64) + 1],
                     Base64Chars[(n % 64) + 1] >>
         IN  IF k = 3 THEN c \o Base64Encode(SubSeq(bytes, 4, Len(bytes)))
             ELSE IF k = 2 THEN << c[1], c[2], c[3], "=" >>
             ELSE << c[1], c[2], "=", "=" >>

\* Byte sequences of every length up to MaxMacBytes, of several contents
MacByteSeqs ==
    { [i \in 1..n |-> (seed * 41 + i * 67) % 256] :
        n \in 0..MaxMacBytes, seed \in 0..15 }

\* One hardware address is decoded: a null, or the text of a byte sequence
MacDecodeCall ==
    /\ calls = <<>>
    /\ \/ calls' = <<[bytes |-> None, outcome |-> deserialize_mac(None)]>>
       \/ \E bytes \in MacByteSeqs :
            calls' = <<[bytes |-> Some(bytes),
                        outcome |-> deserialize_mac(Some(Base64Encode(bytes)))]>>
    /\ UNCHANGED <<modelVars, uiVars, focus, process, turn, modal>>

NextMac == MacDecodeCall

SpecMac == Init /\ [][NextMac]_vars

\* C36: decoding a hardware address accepts a decoded byte sequence of
\* exactly 6 or exactly 8 bytes, giving the address of these bytes, rejects
\* every other decoded length with a decode error, and decodes an absent
\* value to no address
C36_MacOfSixOrEightBytesOnly ==
    \A i \in 1..Len(calls) :
        LET c == calls[i]
        IN  IF c.bytes = None THEN c.outcome = Ok(None)
            ELSE IF Len(c.bytes[1]) \in { 6, 8 }
                 THEN /\ c.outcome.tag = "Ok"
                      /\ c.outcome.value # None
                      /\ c.outcome.value[1].bytes = c.bytes[1]
                      /\ c.outcome.value[1].kind =
                            (IF Len(c.bytes[1]) = 6 THEN "MacAddr6" ELSE "MacAddr8")
                 ELSE c.outcome = Err

\* An address of seven bytes was refused
C36_Witness ==
    /\ calls # <<>>
    /\ calls[1].bytes # None
    /\ Len(calls[1].bytes[1]) = 7
    /\ calls[1].outcome = Err

\* impl From<IpNet> for GoIpNetwork: a mask of sixteen bytes with the first
\* prefix_len bits set, from the most significant bit of the first byte on
GoIpNetworkFromIpNet(net) ==
    [ip |-> Some([addr |-> net.addr, family |-> IpAddrs[net.addr]]),
     mask |-> Some([j \in 1..16 |->
                 LET k == IF net.prefix_len >= 8 * j THEN 8
                          ELSE IF net.prefix_len <= 8 * (j - 1) THEN 0
                          ELSE net.prefix_len - 8 * (j - 1)
                 IN  256 - 2 ^ (8 - k)])]

\* Netmasks of every length up to MaxMaskBytes: bytes of ones closed by a
\* byte of any pattern, and masks whose set bits are not contiguous
MaskSeqs ==
    { [i \in 1..n |-> IF i < n THEN 255 ELSE closing] :
        n \in 0..MaxMaskBytes, closing \in { 0, 128, 170, 255 } }
    \cup { << 255, 0, 255, 0 >>, << 0, 0, 0, 1 >> }

\* The subnets a prefix length can be asked of
IpNets ==
    { [addr |-> ip, prefix_len |-> p] :
        ip \in DOMAIN IpAddrs, p \in 0..128 } \cap
    { net \in [addr : DOMAIN IpAddrs, prefix_len : 0..128] :
        IpNetNew([addr |-> net.addr, family |-> IpAddrs[net.addr]],
                 net.prefix_len).tag = "Ok" }

\* An {address, mask} pair is converted to a subnet
SubnetDecodeCall ==
    /\ calls = <<>>
    /\ \E ip \in DOMAIN IpAddrs, mask \in MaskSeqs :
        calls' = <<[op |-> "decode", ip |-> ip, mask |-> mask,
                    outcome |-> OptionIpNetFrom(
                        [ip |-> Some(ParseIpAddr(ip).value), mask |-> Some(mask)])]>>
    /\ UNCHANGED <<modelVars, uiVars, focus, process, turn, modal>>

\* A subnet is converted to an {address, mask} pair and back
SubnetRoundTripCall ==
    /\ calls = <<>>
    /\ \E net \in IpNets :
        calls' = <<[op |-> "round trip", net |-> net,
                    mask |-> GoIpNetworkFromIpNet(net).mask[1],
                    outcome |-> IpNetFrom(GoIpNetworkFromIpNet(net))]>>
    /\ UNCHANGED <<modelVars, uiVars, focus, process, turn, modal>>

NextSubnet ==
    \/ SubnetDecodeCall
    \/ SubnetRoundTripCall

SpecSubnet == Init /\ [][NextSubnet]_vars

\* C37: for every mask byte sequence for which a subnet is produced the
\* prefix length of the subnet is the number of set bits of the mask, and a
\* subnet converted to a mask and back has the prefix length it had
C37_PrefixLenIsSetBits ==
    \A i \in 1..Len(calls) :
        LET c == calls[i]
        IN  /\ (c.op = "decode" /\ c.outcome.value # None) =>
                  c.outcome.value[1].prefix_len = SumOnes(c.mask)
            /\ c.op = "round trip" =>
                  /\ c.outcome = Ok(c.net)
                  /\ SumOnes(c.mask) = c.net.prefix_len

\* The top layer of the selected tab is a dialog lying over another layer
DialogOnTop ==
    /\ Len(views[selected_tab]) >= 2
    /\ views[selected_tab][Len(views[selected_tab])].kind = "dialog"

\* Ui::handle_event is called with an Escape key
EscapeStep ==
    /\ HandleEventKey
    /\ last'[1].event.code = "Esc"

\* C38: whenever a dialog is the top layer of the selected tab, above a
\* page, an Escape key handled by the Ui removes exactly that dialog: the
\* stack is one layer lower, the layer that was beneath is the top one, no
\* other stack and no other layer changes, the tab stays selected and
\* handle_event returns no action; and whenever the loop can take an event
\* with a dialog on top, the Escape that closes it can be handled
C38_EscapeClosesTopDialog ==
    /\ [][(DialogOnTop /\ last' # None /\ last'[1].event.type = "Key"
                       /\ last'[1].event.code = "Esc") =>
            LET stack == views[selected_tab]
            IN  /\ views' = WithoutTop(views, selected_tab)
                /\ Len(views'[selected_tab]) = Len(stack) - 1
                /\ StackLast(views'[selected_tab]) = Some(stack[Len(stack) - 1])
                /\ last'[1].popped = Some(stack[Len(stack)])
                /\ last'[1].result = None
                /\ selected_tab' = selected_tab
                /\ action_tx' = action_tx]_vars
    /\ []((DialogOnTop /\ CanHandle) => ENABLED EscapeStep)

\* An Escape closed the dialog that lay over the page of the second tab
C38_Witness ==
    /\ last # None
    /\ last[1].event.type = "Key" /\ last[1].event.code = "Esc"
    /\ last[1].top # None /\ last[1].top[1].kind = "dialog"
    /\ last[1].tab = 1 /\ selected_tab = 1
    /\ last[1].depth = 2
    /\ views[selected_tab] = <<Page(1)>>
    /\ last[1].result = None

\* C39: in every reachable state of the Ui the selected tab is one of the
\* five enumerated tabs and indexes an existing stack: there is one stack
\* for each tab, as many as at construction, whatever key events, ticks,
\* pushes and pops have been handled
C39_SelectedTabIndexesAStack ==
    /\ TabCount = 5
    /\ selected_tab \in UiTabs
    /\ DOMAIN views = UiTabs
    /\ Cardinality(DOMAIN views) = TabCount
    /\ selected_tab \in DOMAIN views

\* Ctrl+Right was handled on the last tab while a dialog lay on the stack
\* of another tab: the last tab is still selected
C39_Witness ==
    /\ last # None
    /\ last[1].event = KeyEvent("Right", "CONTROL")
    /\ last[1].tab = TabCount - 1
    /\ selected_tab = TabCount - 1
    /\ Len(views[selected_tab]) = 1
    /\ \E t \in UiTabs : Len(views[t]) = 2

\* Every fragment of the Model but the node status is the same in both
SameOutsideNodeStatus(after, before) ==
    /\ after.apps = before.apps
    /\ after.network = before.network
    /\ after.vault_status = before.vault_status
    /\ after.downloader = before.downloader
    /\ DOMAIN after = DOMAIN before
    /\ DOMAIN after.node_status = DOMAIN before.node_status

\* C40: in every reachable Model the app-summary reducer changes only the
\* app-summary counts of the node status, to those of the message, and the
\* onboarding-status reducer changes only the onboarding state, to
\* Onboarded(device id): each leaves the server address, the other field
\* of the node status, the apps, the network, the vault and the downloader
\* as they were
C40_SummaryAndOnboardingTouchOneField ==
    /\ \A x \in AppInstanceSummaryMsgs :
        LET after == update_app_summary(model, x)
        IN  /\ after.node_status.app_summary = x
            /\ after.node_status.server = model.node_status.server
            /\ after.node_status.onboarding_status =
                   model.node_status.onboarding_status
            /\ SameOutsideNodeStatus(after, model)
    /\ \A x \in EveOnboardingStatusMsgs :
        LET after == update_onboarding_status(model, x)
        IN  /\ after.node_status.onboarding_status =
                   [tag |-> "Onboarded", uuid |-> x.device_uuid]
            /\ after.node_status.server = model.node_status.server
            /\ after.node_status.app_summary = model.node_status.app_summary
            /\ SameOutsideNodeStatus(after, model)

\* The server is known, the node is in the Onboarding state, the counts
\* are those of a summary message and every other fragment has left its
\* default
C40_Witness ==
    /\ model.node_status.server # None
    /\ model.node_status.onboarding_status.tag = "Onboarding"
    /\ model.node_status.app_summary \in AppInstanceSummaryMsgs
    /\ model.apps # EmptyMap
    /\ model.network # <<>>
    /\ model.vault_status.tag # "Unknown"
    /\ model.downloader # None

====
